---------------------------- MODULE Spec2Model ----------------------------
(***************************************************************************)
(* Model of the clawdio agent core (src/src/agent.py): the secret          *)
(* redactor, the output parser and the per-user agent.                     *)
(*                                                                         *)
(* A Python str is a sequence of one-character strings; a few elements     *)
(* longer than one character stand for single code points outside ASCII    *)
(* (the icons of format_tool_use).                                         *)
(***************************************************************************)
EXTENDS Naturals, Integers, Sequences, FiniteSets, TLC

VARIABLES
    rHist,      \* redactor: the input text followed by the results of successive redact_secrets calls
    pOutput,    \* parser: the raw output handed to parse_json_output
    pResult,    \* parser: what parse_json_output did with it
    pPc,        \* parser: "start" before the call, "done" after it
    session_ids,    \* agent: user -> the session id stored for the user, or Absent
    conversations,  \* agent: user -> the user's Conversation, or Absent
    verbose,        \* agent: the verbose attribute
    turn,           \* agent: the last operation: a turn (its user, the --continue argument, how the process
                    \* ended, the result), or clear_conversation (user 0, the user cleared, whether
                    \* a session id was stored and how many messages the transcript held), or
                    \* another operation (user 0, cleared 0)
    delivered,      \* agent: what the last process_message call returned
    returned,       \* history: user -> the last session id the user's turns returned since the user's
                    \* last clear_conversation: the last that is not None, and the last that is not empty
    conversation,   \* conversation: a Conversation object of its own
    inserted,       \* history: the messages added to conversation since it was constructed or cleared
    updates,        \* bot: the updates received and not yet handled, oldest first
    inflight,       \* bot: the turns whose external process is running: the user and the session id
                    \* read when the turn began
    ollama_mode_users,  \* bot: the users whose messages go to the Ollama agent
    ollama_agent,       \* bot: the Ollama agent, None if the bot has none: its model and, for each
                        \* user, the number of messages of the user's conversation (an int), or Absent
    handled,            \* history: the last update handled: its sender, the handler, and whether the
                        \* handler called the Claude agent or the claude program, and the Ollama agent
    state,          \* status: the progress that handle_message tracks for its turn
    now,            \* status: time.time(), in seconds
    emissions,      \* status: the calls of status_msg.edit_text: the state whose text is sent (shown),
                    \* the time, whether the call returned (ok), whether the complete event made it (forced)
    events          \* history: the events handed to on_event, each with its time

vars == <<rHist, pOutput, pResult, pPc, session_ids, conversations, verbose, turn, delivered, returned,
          conversation, inserted, updates, inflight, ollama_mode_users, ollama_agent, handled,
          state, now, emissions, events>>

redactorVars == <<rHist>>
parserVars == <<pOutput, pResult, pPc>>
agentVars == <<session_ids, conversations, verbose, turn, delivered, returned>>
conversationVars == <<conversation, inserted>>
ollamaVars == <<ollama_mode_users, ollama_agent, handled>>
botVars == <<updates, inflight, ollamaVars>>
statusVars == <<state, now, emissions, events>>

-----------------------------------------------------------------------------
(* Characters *)

NL == "\n"
TAB == "\t"
CR == "\r"

LowerSeq == <<"a", "b", "c", "d", "e", "f", "g", "h", "i", "j", "k", "l", "m", "n", "o", "p", "q", "r", "s", "t", "u", "v", "w", "x", "y", "z">>
UpperSeq == <<"A", "B", "C", "D", "E", "F", "G", "H", "I", "J", "K", "L", "M", "N", "O", "P", "Q", "R", "S", "T", "U", "V", "W", "X", "Y", "Z">>
DigitSeq == <<"0", "1", "2", "3", "4", "5", "6", "7", "8", "9">>

Range(s) == {s[i] : i \in 1..Len(s)}

LowerLetters == Range(LowerSeq)
UpperLetters == Range(UpperSeq)
Digits == Range(DigitSeq)

\* str.lower() on one character, as re.IGNORECASE folds case.
LowerMap == [c \in UpperLetters |-> LowerSeq[CHOOSE i \in 1..26 : UpperSeq[i] = c]]
Lower(c) == IF c \in UpperLetters THEN LowerMap[c] ELSE c

\* The concatenation of a sequence of strs.
RECURSIVE Flatten(_)
Flatten(ss) ==
    IF ss = <<>> THEN <<>>
    ELSE IF Len(ss) = 1 THEN ss[1]
    ELSE LET h == Len(ss) \div 2
         IN Flatten(SubSeq(ss, 1, h)) \o Flatten(SubSeq(ss, h + 1, Len(ss)))

\* The least index from pos on of a character of s that is in set;
\* Len(s) + 1 when there is none.
FirstIn(s, pos, set) ==
    IF \E i \in pos..Len(s) : s[i] \in set
    THEN CHOOSE i \in pos..Len(s) : s[i] \in set /\ \A j \in pos..(i - 1) : s[j] \notin set
    ELSE Len(s) + 1

\* \s of the re module and the characters str.strip() removes.
Whitespace == {" ", NL, TAB, CR}

-----------------------------------------------------------------------------
(* Regular expressions of SECRET_PATTERNS: a pattern is a concatenation of  *)
(* items, each a character class with a repetition range, greedy or lazy.   *)
(* Classes hold the case-folded characters (re.IGNORECASE).                 *)

Inf == 1000000

Rep(cls, min, max) == [cls |-> cls, neg |-> FALSE, min |-> min, max |-> max, lazy |-> FALSE]
NotRep(cls, min, max) == [cls |-> cls, neg |-> TRUE, min |-> min, max |-> max, lazy |-> FALSE]
LazyAny == [cls |-> {}, neg |-> TRUE, min |-> 0, max |-> Inf, lazy |-> TRUE]
Lit(s) == [i \in 1..Len(s) |-> Rep({Lower(s[i])}, 1, 1)]

InClass(it, c) == (Lower(c) \in it.cls) # it.neg

\* The least index from pos on of a character of s that item it rejects;
\* Len(s) + 1 when there is none.
FirstRejected(it, s, pos) ==
    IF \E i \in pos..Len(s) : ~InClass(it, s[i])
    THEN CHOOSE i \in pos..Len(s) : ~InClass(it, s[i]) /\ \A j \in pos..(i - 1) : InClass(it, s[j])
    ELSE Len(s) + 1

\* Number of consecutive characters of s from pos on that item it accepts, at most it.max.
Run(it, s, pos) ==
    LET n == FirstRejected(it, s, pos) - pos
    IN IF n > it.max THEN it.max ELSE n

\* Backtracking match of items k.. of the pattern at position pos of s:
\* <<>> when there is none, else <<end, end of group 1>> of the first match
\* in the order the re module tries them (greedy: longest first; lazy:
\* shortest first). g1 is the index of the last item of group 1.
RECURSIVE MatchFrom(_, _, _, _, _), TryCount(_, _, _, _, _, _, _)
MatchFrom(items, g1, k, s, pos) ==
    IF k > Len(items) THEN <<pos, pos>>
    ELSE LET it == items[k]
             n == Run(it, s, pos)
         IN IF n < it.min THEN <<>>
            ELSE TryCount(items, g1, k, s, pos, IF it.lazy THEN it.min ELSE n, n)

TryCount(items, g1, k, s, pos, c, n) ==
    LET it == items[k]
        r == MatchFrom(items, g1, k + 1, s, pos + c)
    IN IF r # <<>> THEN (IF k = g1 THEN <<r[1], pos + c>> ELSE r)
       ELSE IF it.lazy
            THEN (IF c < n THEN TryCount(items, g1, k, s, pos, c + 1, n) ELSE <<>>)
            ELSE (IF c > it.min THEN TryCount(items, g1, k, s, pos, c - 1, n) ELSE <<>>)

\* re.sub(pattern, replacement, s, flags=re.IGNORECASE): every non-overlapping
\* match, leftmost first, is replaced by \1 (when the replacement starts with
\* it), the marker, and \3 (the last character of the match, for the URL rules).
\* The least index from pos on of a character of s that item it accepts;
\* Len(s) + 1 when there is none.
FirstAccepted(it, s, pos) ==
    IF \E i \in pos..Len(s) : InClass(it, s[i])
    THEN CHOOSE i \in pos..Len(s) : InClass(it, s[i]) /\ \A j \in pos..(i - 1) : ~InClass(it, s[j])
    ELSE Len(s) + 1

\* The scan goes from one position where the first item of the pattern (of
\* every pattern, a literal character) accepts the text to the next.
RECURSIVE SubFrom(_, _, _)
SubFrom(rule, s, pos) ==
    LET items == rule.g1 \o rule.rest
        at == FirstAccepted(items[1], s, pos)
        m == MatchFrom(items, Len(rule.g1), 1, s, at)
    IN IF at > Len(s) THEN SubSeq(s, pos, Len(s))
       ELSE IF m = <<>> THEN SubSeq(s, pos, at) \o SubFrom(rule, s, at + 1)
       ELSE LET g1end == IF rule.g1 = <<>> THEN at ELSE m[2]
                keep == IF rule.keep1 THEN SubSeq(s, at, g1end - 1) ELSE <<>>
                tail == IF rule.keep3 THEN SubSeq(s, m[1] - 1, m[1] - 1) ELSE <<>>
            IN SubSeq(s, pos, at - 1) \o keep \o rule.marker \o tail \o SubFrom(rule, s, m[1])

re_sub(rule, s) == SubFrom(rule, s, 1)

Rule(g1, rest, keep1, marker, keep3) ==
    [g1 |-> g1, rest |-> rest, keep1 |-> keep1, marker |-> marker, keep3 |-> keep3]

AlnumChars == LowerLetters \cup Digits
WordChars == AlnumChars \cup {"_", "-"}
SepChars == {"\"", ":", "="} \cup Whitespace
QuoteChars == {"\"", "'"}

REDACTED == <<"[", "R", "E", "D", "A", "C", "T", "E", "D", "]">>

\* (name["\s:=]+)["\']?([cls]{min,})["\']?  ->  \1[REDACTED]
Assignment(name, cls, min) ==
    Rule(Lit(name) \o <<Rep(SepChars, 1, Inf)>>,
         <<Rep(QuoteChars, 0, 1), Rep(cls, min, Inf), Rep(QuoteChars, 0, 1)>>,
         TRUE, REDACTED, FALSE)

\* (name["\s:=]+)["\']?([^\s"\']{8,})["\']?  ->  \1[REDACTED]
PasswordAssignment(name) ==
    Rule(Lit(name) \o <<Rep(SepChars, 1, Inf)>>,
         <<Rep(QuoteChars, 0, 1), NotRep(Whitespace \cup QuoteChars, 8, Inf), Rep(QuoteChars, 0, 1)>>,
         TRUE, REDACTED, FALSE)

\* (scheme://[^:]+:)([^@]+)(@)  ->  \1[REDACTED]\3
DatabaseUrl(scheme) ==
    Rule(Lit(scheme) \o <<NotRep({":"}, 1, Inf), Rep({":"}, 1, 1)>>,
         <<NotRep({"@"}, 1, Inf), Rep({"@"}, 1, 1)>>,
         TRUE, REDACTED, TRUE)

\* prefix[cls]{min,max}  ->  marker
Branded(prefix, cls, min, max, marker) ==
    Rule(<<>>, Lit(prefix) \o <<Rep(cls, min, max)>>, FALSE, marker, FALSE)

PrivateKeyAny ==
    Rule(<<>>,
         Lit(<<"-", "-", "-", "-", "-", "B", "E", "G", "I", "N", " ">>) \o <<Rep(LowerLetters \cup {" "}, 1, Inf)>> \o Lit(<<" ", "P", "R", "I", "V", "A", "T", "E", " ", "K", "E", "Y", "-", "-", "-", "-", "-">>)
           \o <<LazyAny>>
           \o Lit(<<"-", "-", "-", "-", "-", "E", "N", "D", " ">>) \o <<Rep(LowerLetters \cup {" "}, 1, Inf)>> \o Lit(<<" ", "P", "R", "I", "V", "A", "T", "E", " ", "K", "E", "Y", "-", "-", "-", "-", "-">>),
         FALSE, <<"[", "R", "E", "D", "A", "C", "T", "E", "D", "_", "P", "R", "I", "V", "A", "T", "E", "_", "K", "E", "Y", "]">>, FALSE)

PrivateKeyRsa ==
    Rule(<<>>,
         Lit(<<"-", "-", "-", "-", "-", "B", "E", "G", "I", "N", " ", "R", "S", "A", " ", "P", "R", "I", "V", "A", "T", "E", " ", "K", "E", "Y", "-", "-", "-", "-", "-">>) \o <<LazyAny>> \o Lit(<<"-", "-", "-", "-", "-", "E", "N", "D", " ", "R", "S", "A", " ", "P", "R", "I", "V", "A", "T", "E", " ", "K", "E", "Y", "-", "-", "-", "-", "-">>),
         FALSE, <<"[", "R", "E", "D", "A", "C", "T", "E", "D", "_", "P", "R", "I", "V", "A", "T", "E", "_", "K", "E", "Y", "]">>, FALSE)

GenericTokenRule == Assignment(<<"t", "o", "k", "e", "n">>, WordChars, 20)
GithubTokenRule == Branded(<<"g", "h", "p", "_">>, AlnumChars, 36, 36, <<"[", "R", "E", "D", "A", "C", "T", "E", "D", "_", "G", "I", "T", "H", "U", "B", "_", "T", "O", "K", "E", "N", "]">>)
GenericApiKeyRule ==
    Rule(Lit(<<"a", "p", "i">>) \o <<Rep({"_", "-"}, 0, 1)>> \o Lit(<<"k", "e", "y">>) \o <<Rep(SepChars, 1, Inf)>>,
         <<Rep(QuoteChars, 0, 1), Rep(WordChars, 20, Inf), Rep(QuoteChars, 0, 1)>>,
         TRUE, REDACTED, FALSE)
AnthropicKeyRule == Branded(<<"s", "k", "-", "a", "n", "t", "-">>, AlnumChars \cup {"-"}, 20, Inf, <<"[", "R", "E", "D", "A", "C", "T", "E", "D", "_", "A", "N", "T", "H", "R", "O", "P", "I", "C", "_", "K", "E", "Y", "]">>)

SECRET_PATTERNS == <<
    Branded(<<"s", "k", "-">>, AlnumChars, 20, Inf, <<"[", "R", "E", "D", "A", "C", "T", "E", "D", "_", "A", "P", "I", "_", "K", "E", "Y", "]">>),
    GenericApiKeyRule,
    GenericTokenRule,
    Assignment(<<"s", "e", "c", "r", "e", "t">>, WordChars, 16),
    Branded(<<"A", "K", "I", "A">>, AlnumChars, 16, 16, <<"[", "R", "E", "D", "A", "C", "T", "E", "D", "_", "A", "W", "S", "_", "K", "E", "Y", "]">>),
    Assignment(<<"a", "w", "s", "_", "s", "e", "c", "r", "e", "t", "_", "a", "c", "c", "e", "s", "s", "_", "k", "e", "y">>, AlnumChars \cup {"/", "+", "="}, 40),
    GithubTokenRule,
    Branded(<<"g", "h", "o", "_">>, AlnumChars, 36, 36, <<"[", "R", "E", "D", "A", "C", "T", "E", "D", "_", "G", "I", "T", "H", "U", "B", "_", "T", "O", "K", "E", "N", "]">>),
    Branded(<<"g", "l", "p", "a", "t", "-">>, AlnumChars \cup {"-"}, 20, Inf, <<"[", "R", "E", "D", "A", "C", "T", "E", "D", "_", "G", "I", "T", "L", "A", "B", "_", "T", "O", "K", "E", "N", "]">>),
    PrivateKeyAny,
    PrivateKeyRsa,
    PasswordAssignment(<<"p", "a", "s", "s", "w", "o", "r", "d">>),
    PasswordAssignment(<<"p", "a", "s", "s", "w", "d">>),
    PasswordAssignment(<<"p", "w", "d">>),
    DatabaseUrl(<<"m", "o", "n", "g", "o", "d", "b", "+", "s", "r", "v", ":", "/", "/">>),
    DatabaseUrl(<<"p", "o", "s", "t", "g", "r", "e", "s", ":", "/", "/">>),
    DatabaseUrl(<<"m", "y", "s", "q", "l", ":", "/", "/">>),
    DatabaseUrl(<<"r", "e", "d", "i", "s", ":", "/", "/">>),
    Rule(Lit(<<"B", "e", "a", "r", "e", "r">>) \o <<Rep(Whitespace, 1, Inf)>>, <<Rep(WordChars \cup {"."}, 20, Inf)>>,
         TRUE, REDACTED, FALSE),
    AnthropicKeyRule,
    Branded(<<"s", "k", "-">>, AlnumChars, 48, 48, <<"[", "R", "E", "D", "A", "C", "T", "E", "D", "_", "O", "P", "E", "N", "A", "I", "_", "K", "E", "Y", "]">>),
    Rule(<<>>, Lit(<<"x", "o", "x">>) \o <<Rep({"b", "a", "p", "r", "s"}, 1, 1), Rep({"-"}, 1, 1),
                                Rep(AlnumChars \cup {"-"}, 10, Inf)>>,
         FALSE, <<"[", "R", "E", "D", "A", "C", "T", "E", "D", "_", "S", "L", "A", "C", "K", "_", "T", "O", "K", "E", "N", "]">>, FALSE),
    Branded(<<"s", "k", "_", "l", "i", "v", "e", "_">>, AlnumChars, 24, Inf, <<"[", "R", "E", "D", "A", "C", "T", "E", "D", "_", "S", "T", "R", "I", "P", "E", "_", "K", "E", "Y", "]">>),
    Branded(<<"s", "k", "_", "t", "e", "s", "t", "_">>, AlnumChars, 24, Inf, <<"[", "R", "E", "D", "A", "C", "T", "E", "D", "_", "S", "T", "R", "I", "P", "E", "_", "K", "E", "Y", "]">>)
>>

RECURSIVE ApplyRules(_, _, _)
ApplyRules(rules, k, s) ==
    IF k > Len(rules) THEN s
    \* both branches make the same call: the test has result computed before it
    ELSE LET result == re_sub(rules[k], s)
         IN IF result = s THEN ApplyRules(rules, k + 1, s) ELSE ApplyRules(rules, k + 1, result)

redact_secrets(text) ==
    IF text = <<>> THEN text ELSE ApplyRules(SECRET_PATTERNS, 1, text)

\* Values of secrets used in the inputs: 8, 24 and 36 alphanumeric characters.
Alnum8 == <<"1", "2", "3", "4", "5", "6", "7", "8">>
Alnum24 == <<"a", "1", "B", "2", "c", "3", "D", "4", "e", "5", "F", "6", "g", "7", "H", "8", "i", "9", "J", "0", "k", "1", "L", "2">>
Alnum36 == <<"a", "1", "B", "2", "c", "3", "D", "4", "e", "5", "F", "6", "g", "7", "H", "8", "i", "9", "J", "0", "k", "1", "L", "2", "m", "3", "N", "4", "o", "5", "P", "6", "q", "7", "R", "8">>

-----------------------------------------------------------------------------
(* Python values, as json.loads builds them: a tag t and a payload v.       *)
(* A dict is the sequence of its (key, value) pairs in insertion order.     *)

None == [t |-> "none", v |-> 0]
PyBool(b) == [t |-> "bool", v |-> b]
PyInt(n) == [t |-> "int", v |-> n]
PyStr(s) == [t |-> "str", v |-> s]
PyList(xs) == [t |-> "list", v |-> xs]
PyDict(kvs) == [t |-> "dict", v |-> kvs]

IsStr(x) == x.t = "str"
IsList(x) == x.t = "list"
IsDict(x) == x.t = "dict"

\* x == "literal" for a str literal.
EqStr(x, s) == x.t = "str" /\ x.v = s

\* bool(x)
Truthy(x) ==
    CASE x.t = "none" -> FALSE
      [] x.t = "bool" -> x.v
      [] x.t = "int" -> x.v # 0
      [] OTHER -> x.v # <<>>

\* key in d, d[key] and d.get(key, default) of a dict d.
HasKey(d, key) == \E i \in 1..Len(d.v) : d.v[i].k = key
Item(d, key) == d.v[CHOOSE i \in 1..Len(d.v) : d.v[i].k = key].v
Get(d, key, default) == IF HasKey(d, key) THEN Item(d, key) ELSE default

\* d[key] = val
SetItem(kvs, key, val) ==
    IF \E i \in 1..Len(kvs) : kvs[i].k = key
    THEN [i \in 1..Len(kvs) |-> IF kvs[i].k = key THEN [k |-> key, v |-> val] ELSE kvs[i]]
    ELSE Append(kvs, [k |-> key, v |-> val])

\* str.lower()
LowerStr(s) == [i \in 1..Len(s) |-> Lower(s[i])]

\* sub in s, for two strs
Contains(sub, s) ==
    \E i \in 1..(Len(s) + 1) : i + Len(sub) - 1 <= Len(s) /\ SubSeq(s, i, i + Len(sub) - 1) = sub

\* s.startswith(prefix)
StartsWith(s, prefix) == Len(prefix) <= Len(s) /\ SubSeq(s, 1, Len(prefix)) = prefix

\* s.strip()
RECURSIVE LStrip(_), RStrip(_)
LStrip(s) == IF s # <<>> /\ Head(s) \in Whitespace THEN LStrip(Tail(s)) ELSE s
RStrip(s) == IF s # <<>> /\ s[Len(s)] \in Whitespace THEN RStrip(SubSeq(s, 1, Len(s) - 1)) ELSE s
Strip(s) == RStrip(LStrip(s))

\* s.split("\n")
RECURSIVE SplitFrom(_, _, _)
SplitFrom(s, pos, out) ==
    LET j == FirstIn(s, pos, {NL})
    IN IF j > Len(s) THEN Append(out, SubSeq(s, pos, Len(s)))
       ELSE SplitFrom(s, j + 1, Append(out, SubSeq(s, pos, j - 1)))
SplitLines(s) == SplitFrom(s, 1, <<>>)

\* sep.join(parts)
RECURSIVE Join(_, _)
Join(sep, parts) ==
    IF parts = <<>> THEN <<>>
    ELSE IF Len(parts) = 1 THEN parts[1]
    ELSE parts[1] \o sep \o Join(sep, Tail(parts))

\* str(n) of an int
RECURSIVE NatStr(_)
NatStr(n) == IF n < 10 THEN <<DigitSeq[n + 1]>> ELSE Append(NatStr(n \div 10), DigitSeq[(n % 10) + 1])
IntStr(n) == IF n < 0 THEN <<"-">> \o NatStr(0 - n) ELSE NatStr(n)

\* repr(s) of a str: single quotes unless s holds one and no double quote;
\* the quote, the backslash and the control characters are escaped.
ReprChar(c, q) ==
    CASE c = "\\" -> <<"\\", "\\">>
      [] c = NL -> <<"\\", "n">>
      [] c = TAB -> <<"\\", "t">>
      [] c = CR -> <<"\\", "r">>
      [] c = q -> <<"\\", q>>
      [] OTHER -> <<c>>
StrRepr(s) ==
    LET q == IF "'" \in Range(s) /\ "\"" \notin Range(s) THEN "\"" ELSE "'"
    IN <<q>> \o Flatten([i \in 1..Len(s) |-> ReprChar(s[i], q)]) \o <<q>>

\* repr(x) and str(x), as an f-string renders a value.
RECURSIVE Repr(_)
Repr(x) ==
    CASE x.t = "none" -> <<"N", "o", "n", "e">>
      [] x.t = "bool" -> IF x.v THEN <<"T", "r", "u", "e">> ELSE <<"F", "a", "l", "s", "e">>
      [] x.t = "int" -> IntStr(x.v)
      [] x.t = "str" -> StrRepr(x.v)
      [] x.t = "list" -> <<"[">> \o Join(<<",", " ">>, [i \in 1..Len(x.v) |-> Repr(x.v[i])]) \o <<"]">>
      [] OTHER -> <<"{">> \o Join(<<",", " ">>, [i \in 1..Len(x.v) |->
                                 StrRepr(x.v[i].k) \o <<":", " ">> \o Repr(x.v[i].v)]) \o <<"}">>
Str(x) == IF x.t = "str" THEN x.v ELSE Repr(x)

-----------------------------------------------------------------------------
(* json.loads: a recursive-descent decoder over the characters. A decoding  *)
(* step returns [ok, val, pos]: success, the value and the position after   *)
(* it. Numbers are the integers; the escapes are \" \\ \/ \n \t \r.         *)

JsonWhitespace == {" ", NL, TAB, CR}

Fail == [ok |-> FALSE, val |-> None, pos |-> 0]
Ok(val, pos) == [ok |-> TRUE, val |-> val, pos |-> pos]

RECURSIVE SkipWs(_, _)
SkipWs(s, pos) == IF pos <= Len(s) /\ s[pos] \in JsonWhitespace THEN SkipWs(s, pos + 1) ELSE pos

\* The characters of a string literal whose opening quote is before pos.
RECURSIVE ScanString(_, _, _)
ScanString(s, pos, acc) ==
    LET j == FirstIn(s, pos, {"\"", "\\", NL, TAB, CR})
        got == acc \o SubSeq(s, pos, j - 1)
    IN IF j > Len(s) THEN Fail
       ELSE IF s[j] = "\"" THEN Ok(PyStr(got), j + 1)
       ELSE IF s[j] # "\\" \/ j + 1 > Len(s) THEN Fail
       ELSE CASE s[j + 1] \in {"\"", "\\", "/"} -> ScanString(s, j + 2, Append(got, s[j + 1]))
              [] s[j + 1] = "n" -> ScanString(s, j + 2, Append(got, NL))
              [] s[j + 1] = "t" -> ScanString(s, j + 2, Append(got, TAB))
              [] s[j + 1] = "r" -> ScanString(s, j + 2, Append(got, CR))
              [] OTHER -> Fail

RECURSIVE ScanDigits(_, _, _)
ScanDigits(s, pos, n) ==
    IF pos <= Len(s) /\ s[pos] \in Digits
    THEN ScanDigits(s, pos + 1, 10 * n + ((CHOOSE i \in 1..10 : DigitSeq[i] = s[pos]) - 1))
    ELSE <<n, pos>>

\* -?(0|[1-9][0-9]*)
ScanNumber(s, pos) ==
    LET neg == s[pos] = "-"
        p == IF neg THEN pos + 1 ELSE pos
    IN IF p > Len(s) \/ s[p] \notin Digits THEN Fail
       ELSE IF s[p] = "0" THEN Ok(PyInt(0), p + 1)
       ELSE LET r == ScanDigits(s, p, 0)
            IN Ok(PyInt(IF neg THEN 0 - r[1] ELSE r[1]), r[2])

RECURSIVE ParseValue(_, _), ParseMembers(_, _, _), ParseElements(_, _, _)
ParseValue(s, pos) ==
    IF pos > Len(s) THEN Fail
    ELSE CASE s[pos] = "\"" -> ScanString(s, pos + 1, <<>>)
           [] s[pos] = "{" ->
                LET p == SkipWs(s, pos + 1)
                IN IF p <= Len(s) /\ s[p] = "}" THEN Ok(PyDict(<<>>), p + 1)
                   ELSE ParseMembers(s, p, <<>>)
           [] s[pos] = "[" ->
                LET p == SkipWs(s, pos + 1)
                IN IF p <= Len(s) /\ s[p] = "]" THEN Ok(PyList(<<>>), p + 1)
                   ELSE ParseElements(s, p, <<>>)
           [] s[pos] = "-" \/ s[pos] \in Digits -> ScanNumber(s, pos)
           [] StartsWith(SubSeq(s, pos, Len(s)), <<"n", "u", "l", "l">>) -> Ok(None, pos + 4)
           [] StartsWith(SubSeq(s, pos, Len(s)), <<"t", "r", "u", "e">>) -> Ok(PyBool(TRUE), pos + 4)
           [] StartsWith(SubSeq(s, pos, Len(s)), <<"f", "a", "l", "s", "e">>) -> Ok(PyBool(FALSE), pos + 5)
           [] OTHER -> Fail

\* "key" : value ( , "key" : value )* }   with pos at the first key
ParseMembers(s, pos, kvs) ==
    IF pos > Len(s) \/ s[pos] # "\"" THEN Fail
    ELSE LET key == ScanString(s, pos + 1, <<>>)
         IN IF ~key.ok THEN Fail
            ELSE LET c == SkipWs(s, key.pos)
                 IN IF c > Len(s) \/ s[c] # ":" THEN Fail
                    ELSE LET val == ParseValue(s, SkipWs(s, c + 1))
                         IN IF ~val.ok THEN Fail
                            ELSE LET e == SkipWs(s, val.pos)
                                     more == SetItem(kvs, key.val.v, val.val)
                                 IN IF e > Len(s) THEN Fail
                                    ELSE IF s[e] = "}" THEN Ok(PyDict(more), e + 1)
                                    ELSE IF s[e] = "," THEN ParseMembers(s, SkipWs(s, e + 1), more)
                                    ELSE Fail

\* value ( , value )* ]   with pos at the first value
ParseElements(s, pos, xs) ==
    LET val == ParseValue(s, pos)
    IN IF ~val.ok THEN Fail
       ELSE LET e == SkipWs(s, val.pos)
                more == Append(xs, val.val)
            IN IF e > Len(s) THEN Fail
               ELSE IF s[e] = "]" THEN Ok(PyList(more), e + 1)
               ELSE IF s[e] = "," THEN ParseElements(s, SkipWs(s, e + 1), more)
               ELSE Fail

\* json.loads(s): [ok, val]; ok is FALSE where it raises JSONDecodeError.
json_loads(s) ==
    LET r == ParseValue(s, SkipWs(s, 1))
    IN IF r.ok /\ SkipWs(s, r.pos) > Len(s) THEN r ELSE Fail

-----------------------------------------------------------------------------
(* format_tool_use. The result is [exc, v]: exc where the call raises       *)
(* (TypeError, AttributeError), else v is the formatted line.               *)

IconPlug == <<"U+1F50C">>
IconComputer == <<"U+1F4BB">>
IconBook == <<"U+1F4D6">>
IconPencil == <<"U+270F", "U+FE0F">>
IconMemo == <<"U+1F4DD">>
IconGlassLeft == <<"U+1F50D">>
IconGlassRight == <<"U+1F50E">>
IconGlobe == <<"U+1F310">>
IconWrench == <<"U+1F527">>
IconPage == <<"U+1F4C4">>

\* The backtick, which the lexer of this language does not accept in a string.
BQ == "U+0060"

Raises == [exc |-> TRUE, v |-> <<>>]
Returns(v) == [exc |-> FALSE, v |-> v]

BashNames == {<<"B", "a", "s", "h">>, <<"b", "a", "s", "h">>, <<"r", "u", "n", "_", "c", "o", "m", "m", "a", "n", "d">>}
ReadNames == {<<"R", "e", "a", "d">>, <<"r", "e", "a", "d", "_", "f", "i", "l", "e">>}
WriteNames == {<<"W", "r", "i", "t", "e">>, <<"w", "r", "i", "t", "e", "_", "f", "i", "l", "e">>}
EditNames == {<<"E", "d", "i", "t">>, <<"e", "d", "i", "t", "_", "f", "i", "l", "e">>}
GlobNames == {<<"G", "l", "o", "b">>, <<"g", "l", "o", "b">>}
GrepNames == {<<"G", "r", "e", "p">>, <<"g", "r", "e", "p">>}

\* len(x) raises for None, a bool and an int.
HasLen(x) == x.t \in {"str", "list", "dict"}

\* x if len(x) <= limit, else x[:limit - 3] + "...": [exc, v] with v the
\* value rendered as an f-string renders it.
Shorten(x, limit) ==
    IF ~HasLen(x) THEN Raises
    ELSE IF Len(x.v) > limit
         THEN (IF IsStr(x) THEN Returns(SubSeq(x.v, 1, limit - 3) \o <<".", ".", ".">>) ELSE Raises)
         ELSE Returns(Str(x))

\* The first str value shorter than 50 characters, as "key: value".
RECURSIVE FirstShort(_, _)
FirstShort(kvs, i) ==
    IF i > Len(kvs) THEN <<>>
    ELSE IF IsStr(kvs[i].v) /\ Len(kvs[i].v.v) < 50 THEN kvs[i].k \o <<":", " ">> \o kvs[i].v.v
    ELSE FirstShort(kvs, i + 1)

format_tool_use(tool_name, tool_input) ==
    LET \* ":" in tool_name or tool_name.startswith("mcp_")
        nameOk == CASE tool_name.t = "str" -> TRUE
                    [] tool_name.t = "list" -> \E i \in 1..Len(tool_name.v) : EqStr(tool_name.v[i], <<":">>)
                    [] tool_name.t = "dict" -> HasKey(tool_name, <<":">>)
                    [] OTHER -> FALSE
        is_mcp == IF IsStr(tool_name)
                  THEN Contains(<<":">>, tool_name.v) \/ StartsWith(tool_name.v, <<"m", "c", "p", "_">>)
                  ELSE TRUE
        NameIn(S) == IsStr(tool_name) /\ tool_name.v \in S
        icon == IF is_mcp THEN IconPlug
                ELSE IF NameIn(BashNames) THEN IconComputer
                ELSE IF NameIn(ReadNames) THEN IconBook
                ELSE IF NameIn(WriteNames) THEN IconPencil
                ELSE IF NameIn(EditNames) THEN IconMemo
                ELSE IF NameIn(GlobNames) THEN IconGlassLeft
                ELSE IF NameIn(GrepNames) THEN IconGlassRight
                ELSE IF StartsWith(LowerStr(tool_name.v), <<"w", "e", "b">>)
                        \/ Contains(<<"s", "e", "a", "r", "c", "h">>, LowerStr(tool_name.v)) THEN IconGlobe
                ELSE IconWrench
        empty == PyStr(<<>>)
        Quoted(q, r) == IF r.exc THEN Raises ELSE Returns(q \o r.v \o q)
        summary ==
            IF NameIn(BashNames)
            THEN Quoted(<<BQ>>, Shorten(Get(tool_input, <<"c", "o", "m", "m", "a", "n", "d">>, empty), 60))
            ELSE IF NameIn(ReadNames) \/ NameIn(WriteNames) \/ NameIn(EditNames)
            THEN Returns(<<BQ>> \o Str(Get(tool_input, <<"p", "a", "t", "h">>, Get(tool_input, <<"f", "i", "l", "e", "_", "p", "a", "t", "h">>, empty)))
                         \o <<BQ>>)
            ELSE IF NameIn(GlobNames) \/ NameIn(GrepNames)
            THEN Returns(<<BQ>> \o Str(Get(tool_input, <<"p", "a", "t", "t", "e", "r", "n">>, empty)) \o <<BQ>>)
            ELSE IF HasKey(tool_input, <<"q", "u", "e", "r", "y">>)
            THEN Quoted(<<"\"">>, Shorten(Item(tool_input, <<"q", "u", "e", "r", "y">>), 50))
            ELSE IF HasKey(tool_input, <<"u", "r", "l">>)
            THEN Returns(Str(Item(tool_input, <<"u", "r", "l">>)))
            ELSE Returns(FirstShort(tool_input.v, 1))
    IN IF ~nameOk THEN Raises
       \* every branch calls tool_input.get or tool_input.items, or tests
       \* "query" in a value that is no container
       ELSE IF ~IsDict(tool_input) THEN Raises
       ELSE IF summary.exc THEN Raises
       ELSE Returns(icon \o <<" ", "*", "*">> \o Str(tool_name) \o <<"*", "*", " ">> \o summary.v)

-----------------------------------------------------------------------------
(* The parser's working state: the lists it appends to and the final        *)
(* response, with exc set once a statement has raised.                      *)

Start == [exc |-> FALSE, tools |-> <<>>, thinking |-> <<>>, final |-> PyStr(<<>>)]
Raise(st) == [st EXCEPT !.exc = TRUE]

\* tool_uses.append(format_tool_use(tool_name, tool_input))
AppendTool(st, tool_name, tool_input) ==
    LET f == format_tool_use(tool_name, tool_input)
    IN IF f.exc THEN Raise(st) ELSE [st EXCEPT !.tools = Append(@, f.v)]

THINKING_MAX == 200

\* if thinking and len(thinking) > min:
\*     if len(thinking) > 200: thinking = thinking[:197] + "..."
\*     thinking_blocks.append(thinking)
AppendThinking(st, thinking, min) ==
    IF ~Truthy(thinking) THEN st
    ELSE IF ~HasLen(thinking) THEN Raise(st)
    ELSE IF Len(thinking.v) <= min THEN st
    ELSE IF Len(thinking.v) > THINKING_MAX
         THEN (IF IsStr(thinking)
               THEN [st EXCEPT !.thinking = Append(@, PyStr(SubSeq(thinking.v, 1, THINKING_MAX - 3) \o <<".", ".", ".">>))]
               ELSE Raise(st))
    ELSE [st EXCEPT !.thinking = Append(@, thinking)]

THINKING_MIN == 10

\* A variant of AddText that puts the new text in front.
AddTextInFront(st, text) ==
    IF IsStr(text) THEN [st EXCEPT !.final = PyStr(text.v \o @.v)] ELSE Raise(st)

\* final_response += text
AddText(st, text) ==
    IF IsStr(text) THEN [st EXCEPT !.final = PyStr(@.v \o text.v)] ELSE Raise(st)

EmptyDict == PyDict(<<>>)
Unknown == PyStr(<<"u", "n", "k", "n", "o", "w", "n">>)

RecurseKeys == {<<"t", "o", "o", "l", "_", "c", "a", "l", "l", "s">>, <<"t", "o", "o", "l", "s">>, <<"t", "o", "o", "l", "_", "u", "s", "e">>, <<"m", "e", "s", "s", "a", "g", "e", "s">>, <<"c", "o", "n", "t", "e", "n", "t">>, <<"b", "l", "o", "c", "k", "s">>}

\* The tool_use / tool_call branch of extract_tools_recursive.
ToolNode(obj, st) ==
    LET fn == Get(obj, <<"f", "u", "n", "c", "t", "i", "o", "n">>, EmptyDict)
    IN IF ~IsDict(fn) THEN Raise(st)   \* .get of the default is evaluated whatever the node holds
       ELSE LET tool_name == Get(obj, <<"n", "a", "m", "e">>, Get(obj, <<"t", "o", "o", "l">>, Get(fn, <<"n", "a", "m", "e">>, Unknown)))
                given == Get(obj, <<"i", "n", "p", "u", "t">>, Get(obj, <<"a", "r", "g", "s">>, Get(obj, <<"a", "r", "g", "u", "m", "e", "n", "t", "s">>,
                             Get(fn, <<"a", "r", "g", "u", "m", "e", "n", "t", "s">>, EmptyDict))))
                decoded == json_loads(given.v)
                tool_input == IF ~IsStr(given) THEN given
                              ELSE IF decoded.ok THEN decoded.val
                              ELSE PyDict(<<[k |-> <<"r", "a", "w">>, v |-> given]>>)
            IN AppendTool(st, tool_name, tool_input)

RECURSIVE extract_tools_recursive(_, _), VisitItems(_, _, _), VisitList(_, _, _)
extract_tools_recursive(obj, st) ==
    IF st.exc THEN st
    ELSE IF IsDict(obj)
    THEN LET obj_type == Get(obj, <<"t", "y", "p", "e">>, PyStr(<<>>))
             st1 == IF EqStr(obj_type, <<"t", "o", "o", "l", "_", "u", "s", "e">>) \/ EqStr(obj_type, <<"t", "o", "o", "l", "_", "c", "a", "l", "l">>)
                    THEN ToolNode(obj, st)
                    ELSE IF EqStr(obj_type, <<"t", "h", "i", "n", "k", "i", "n", "g">>)
                    THEN AppendThinking(st, Get(obj, <<"t", "h", "i", "n", "k", "i", "n", "g">>, Get(obj, <<"c", "o", "n", "t", "e", "n", "t">>, PyStr(<<>>))),
                                        THINKING_MIN)
                    ELSE st
         IN VisitItems(obj.v, 1, st1)
    ELSE IF IsList(obj) THEN VisitList(obj.v, 1, st)
    ELSE st

VisitItems(kvs, i, st) ==
    IF i > Len(kvs) \/ st.exc THEN st
    ELSE VisitItems(kvs, i + 1,
                    IF kvs[i].k \in RecurseKeys THEN extract_tools_recursive(kvs[i].v, st) ELSE st)

VisitList(xs, i, st) ==
    IF i > Len(xs) \/ st.exc THEN st
    ELSE VisitList(xs, i + 1, extract_tools_recursive(xs[i], st))

-----------------------------------------------------------------------------
(* parse_json_output *)

\* x > n for an int n: an int and a bool compare, anything else raises.
IsNumber(x) == x.t \in {"int", "bool"}
NumVal(x) == IF x.t = "bool" THEN (IF x.v THEN 1 ELSE 0) ELSE x.v

Requests(n) == <<" ", "r", "e", "q", "u", "e", "s", "t">> \o (IF NumVal(n) > 1 THEN <<"s">> ELSE <<>>) \o <<")">>

\* The usage.server_tool_use counters of a dict document.
ServerToolUse(data, st) ==
    LET usage == Get(data, <<"u", "s", "a", "g", "e">>, EmptyDict)
        server_tool_use == Get(usage, <<"s", "e", "r", "v", "e", "r", "_", "t", "o", "o", "l", "_", "u", "s", "e">>, EmptyDict)
        web_search == Get(server_tool_use, <<"w", "e", "b", "_", "s", "e", "a", "r", "c", "h", "_", "r", "e", "q", "u", "e", "s", "t", "s">>, PyInt(0))
        web_fetch == Get(server_tool_use, <<"w", "e", "b", "_", "f", "e", "t", "c", "h", "_", "r", "e", "q", "u", "e", "s", "t", "s">>, PyInt(0))
        st1 == IF NumVal(web_search) > 0
               THEN [st EXCEPT !.tools = Append(@, IconGlobe \o <<" ", "*", "*", "W", "e", "b", " ", "S", "e", "a", "r", "c", "h", "*", "*", " ", "(">> \o Str(web_search)
                                                     \o Requests(web_search))]
               ELSE st
    IN IF ~IsDict(usage) THEN Raise(st)
       ELSE IF ~IsDict(server_tool_use) THEN Raise(st)
       ELSE IF ~IsNumber(web_search) \/ ~IsNumber(web_fetch) THEN Raise(st)
       ELSE IF NumVal(web_fetch) > 0
            THEN [st1 EXCEPT !.tools = Append(@, IconPage \o <<" ", "*", "*", "W", "e", "b", " ", "F", "e", "t", "c", "h", "*", "*", " ", "(">> \o Str(web_fetch)
                                                  \o Requests(web_fetch))]
            ELSE st1

\* The blocks of the top-level content list.
RECURSIVE ContentBlocks(_, _, _)
ContentBlocks(blocks, i, st) ==
    IF i > Len(blocks) \/ st.exc THEN st
    ELSE LET block == blocks[i]
             type == Get(block, <<"t", "y", "p", "e">>, None)
             st1 == IF ~IsDict(block) THEN st
                    ELSE IF EqStr(type, <<"t", "e", "x", "t">>) THEN AddText(st, Get(block, <<"t", "e", "x", "t">>, PyStr(<<>>)))
                    ELSE IF EqStr(type, <<"t", "o", "o", "l", "_", "u", "s", "e">>)
                    THEN AppendTool(st, Get(block, <<"n", "a", "m", "e">>, Unknown), Get(block, <<"i", "n", "p", "u", "t">>, EmptyDict))
                    ELSE IF EqStr(type, <<"t", "h", "i", "n", "k", "i", "n", "g">>)
                    THEN AppendThinking(st, Get(block, <<"t", "h", "i", "n", "k", "i", "n", "g">>, PyStr(<<>>)), 0)
                    ELSE st
         IN ContentBlocks(blocks, i + 1, st1)

\* The result / response / content chain of a dict document.
\* A variant of FinalField that looks at `response` before `result`.
FinalFieldResponseFirst(data, st) ==
    IF HasKey(data, <<"r", "e", "s", "p", "o", "n", "s", "e">>) THEN [st EXCEPT !.final = Item(data, <<"r", "e", "s", "p", "o", "n", "s", "e">>)]
    ELSE IF HasKey(data, <<"r", "e", "s", "u", "l", "t">>) THEN [st EXCEPT !.final = Item(data, <<"r", "e", "s", "u", "l", "t">>)]
    ELSE st

FinalField(data, st) ==
    IF HasKey(data, <<"r", "e", "s", "u", "l", "t">>) THEN [st EXCEPT !.final = Item(data, <<"r", "e", "s", "u", "l", "t">>)]
    ELSE IF HasKey(data, <<"r", "e", "s", "p", "o", "n", "s", "e">>) THEN [st EXCEPT !.final = Item(data, <<"r", "e", "s", "p", "o", "n", "s", "e">>)]
    ELSE IF HasKey(data, <<"c", "o", "n", "t", "e", "n", "t">>)
    THEN LET content == Item(data, <<"c", "o", "n", "t", "e", "n", "t">>)
         IN IF IsStr(content) THEN [st EXCEPT !.final = content]
            ELSE IF IsList(content) THEN ContentBlocks(content.v, 1, st)
            ELSE st
    ELSE st

\* The blocks of one message's content list.
RECURSIVE MessageBlocks(_, _, _)
MessageBlocks(blocks, i, st) ==
    IF i > Len(blocks) \/ st.exc THEN st
    ELSE LET block == blocks[i]
             type == Get(block, <<"t", "y", "p", "e">>, None)
             st1 == IF ~IsDict(block) THEN st
                    ELSE IF EqStr(type, <<"t", "o", "o", "l", "_", "u", "s", "e">>)
                    THEN AppendTool(st, Get(block, <<"n", "a", "m", "e">>, Unknown), Get(block, <<"i", "n", "p", "u", "t">>, EmptyDict))
                    ELSE IF EqStr(type, <<"t", "h", "i", "n", "k", "i", "n", "g">>)
                    THEN AppendThinking(st, Get(block, <<"t", "h", "i", "n", "k", "i", "n", "g">>, PyStr(<<>>)), THINKING_MIN)
                    ELSE st
         IN MessageBlocks(blocks, i + 1, st1)

\* for msg in data["messages"]: a list yields its items; a str yields
\* characters and a dict its keys, none of them a dict; anything else raises.
RECURSIVE Messages(_, _, _)
Messages(msgs, i, st) ==
    IF i > Len(msgs) \/ st.exc THEN st
    ELSE LET content == Get(msgs[i], <<"c", "o", "n", "t", "e", "n", "t">>, PyList(<<>>))
         IN Messages(msgs, i + 1,
                     IF IsDict(msgs[i]) /\ IsList(content) THEN MessageBlocks(content.v, 1, st) ELSE st)

MessagesField(data, st) ==
    IF st.exc \/ ~HasKey(data, <<"m", "e", "s", "s", "a", "g", "e", "s">>) THEN st
    ELSE LET messages == Item(data, <<"m", "e", "s", "s", "a", "g", "e", "s">>)
         IN IF IsList(messages) THEN Messages(messages.v, 1, st)
            ELSE IF HasLen(messages) THEN st
            ELSE Raise(st)

\* The top-level fields of a document, after the recursive extraction.
TopLevel(data, st) ==
    IF st.exc THEN st ELSE MessagesField(data, FinalField(data, st))

\* The body of the try block once json.loads(output) has returned data.
Document(data) ==
    IF IsDict(data)
    THEN TopLevel(data, extract_tools_recursive(data, ServerToolUse(data, Start)))
    ELSE extract_tools_recursive(data, Start)

\* session_id = data.get("session_id")
DocumentSessionId(data) == IF IsDict(data) THEN Get(data, <<"s", "e", "s", "s", "i", "o", "n", "_", "i", "d">>, None) ELSE None

TextTypes == {<<"t", "e", "x", "t">>, <<"r", "e", "s", "u", "l", "t">>, <<"r", "e", "s", "p", "o", "n", "s", "e">>, <<"m", "e", "s", "s", "a", "g", "e">>}

\* One decoded line of the line-by-line pass.
Event(event, st) ==
    LET event_type == Get(event, <<"t", "y", "p", "e">>, PyStr(<<>>))
        lower == LowerStr(event_type.v)
        text == Get(event, <<"t", "e", "x", "t">>, Get(event, <<"c", "o", "n", "t", "e", "n", "t">>, Get(event, <<"r", "e", "s", "u", "l", "t">>, PyStr(<<>>))))
        delta == Get(event, <<"d", "e", "l", "t", "a">>, EmptyDict)
    IN IF ~IsDict(event) THEN st
       ELSE IF EqStr(event_type, <<"t", "o", "o", "l", "_", "u", "s", "e">>) THEN
            AppendTool(st, Get(event, <<"n", "a", "m", "e">>, Get(event, <<"t", "o", "o", "l">>, Unknown)),
                       Get(event, <<"i", "n", "p", "u", "t">>, Get(event, <<"a", "r", "g", "s">>, EmptyDict)))
       ELSE IF ~IsStr(event_type) THEN Raise(st)     \* event_type.lower()
       ELSE IF Contains(<<"t", "o", "o", "l">>, lower) THEN
            AppendTool(st, Get(event, <<"n", "a", "m", "e">>, Get(event, <<"t", "o", "o", "l">>, Unknown)),
                       Get(event, <<"i", "n", "p", "u", "t">>, Get(event, <<"a", "r", "g", "s">>, EmptyDict)))
       ELSE IF EqStr(event_type, <<"t", "h", "i", "n", "k", "i", "n", "g">>) \/ Contains(<<"t", "h", "i", "n", "k">>, lower) THEN
            AppendThinking(st, Get(event, <<"t", "h", "i", "n", "k", "i", "n", "g">>, Get(event, <<"c", "o", "n", "t", "e", "n", "t">>, PyStr(<<>>))), THINKING_MIN)
       ELSE IF event_type.v \in TextTypes THEN
            (IF Truthy(text) THEN AddText(st, text) ELSE st)
       ELSE IF EqStr(event_type, <<"c", "o", "n", "t", "e", "n", "t", "_", "b", "l", "o", "c", "k", "_", "d", "e", "l", "t", "a">>) THEN
            (IF ~IsDict(delta) THEN Raise(st)
             ELSE IF EqStr(Get(delta, <<"t", "y", "p", "e">>, None), <<"t", "e", "x", "t", "_", "d", "e", "l", "t", "a">>)
                  THEN AddText(st, Get(delta, <<"t", "e", "x", "t">>, PyStr(<<>>)))
                  ELSE st)
       ELSE st

\* A variant of Line in which the last line that does not decode is the final text.
LineLastWins(raw_line, st) ==
    LET line == Strip(raw_line)
        event == json_loads(line)
    IN IF line = <<>> THEN st
       ELSE IF event.ok THEN Event(event.val, st)
       ELSE [st EXCEPT !.final = PyStr(line)]

\* The body of the loop over the lines: a blank line is skipped, a line that
\* decodes is an event, and the first line that does not is the final text.
Line(raw_line, st) ==
    LET line == Strip(raw_line)
        event == json_loads(line)
    IN IF line = <<>> THEN st
       ELSE IF event.ok THEN Event(event.val, st)
       ELSE IF ~Truthy(st.final) THEN [st EXCEPT !.final = PyStr(line)]
       ELSE st

\* for line in output.strip().split("\n"): ...
RECURSIVE Lines(_, _, _)
Lines(lines, i, st) ==
    IF i > Len(lines) \/ st.exc THEN st
    ELSE Lines(lines, i + 1, Line(lines[i], st))

\* A variant of Result without the fallback to the raw output.
ResultNoFallback(st, output, session_id) ==
    IF st.exc
    THEN [raised |-> TRUE, final |-> None, tools |-> <<>>, thinking |-> <<>>, session |-> None]
    ELSE [raised |-> FALSE, final |-> st.final,
          tools |-> st.tools, thinking |-> st.thinking, session |-> session_id]

\* if not final_response: final_response = output; return ...
Result(st, output, session_id) ==
    IF st.exc
    THEN [raised |-> TRUE, final |-> None, tools |-> <<>>, thinking |-> <<>>, session |-> None]
    ELSE [raised |-> FALSE,
          final |-> IF Truthy(st.final) THEN st.final ELSE PyStr(output),
          tools |-> st.tools, thinking |-> st.thinking, session |-> session_id]

\* The two passes, data being what json.loads(output) gave.
Passes(output, data) ==
    IF data.ok
    THEN Result(Document(data.val), output, DocumentSessionId(data.val))
    ELSE Result(Lines(SplitLines(Strip(output)), 1, Start), output, None)

parse_json_output(output) == Passes(output, json_loads(output))

-----------------------------------------------------------------------------
(* Agent: _run_claude_code, process_message and clear_conversation.         *)
(*                                                                          *)
(* What subprocess.run did is the outcome of a turn: [kind, returncode,     *)
(* stdout, stderr] with kind "exit" (the process ran and ended), "timeout"  *)
(* (TimeoutExpired), "notfound" (FileNotFoundError) or "error" (any other   *)
(* exception).                                                              *)

\* str(e) of an exception caught by `except Exception`: one opaque element.
ExcText == <<"<exception>">>

Failure(message) == [response |-> message, tool_uses |-> <<>>, thinking |-> <<>>, new_session_id |-> None]

\* x[:8] raises unless x is a str or a list (a dict has no slices).
Sliceable(x) == x.t \in {"str", "list"}

\* response = redact_secrets(response.strip()) if response else "No output from Claude Code"
Response(final) ==
    IF Truthy(final) THEN redact_secrets(Strip(final.v)) ELSE <<"N", "o", " ", "o", "u", "t", "p", "u", "t", " ", "f", "r", "o", "m", " ", "C", "l", "a", "u", "d", "e", " ", "C", "o", "d", "e">>

\* The part of _run_claude_code after parse_json_output(output) has ended as parsed.
Parsed(parsed) ==
    IF parsed.raised THEN Failure(<<"E", "r", "r", "o", "r", " ", "r", "u", "n", "n", "i", "n", "g", " ", "C", "l", "a", "u", "d", "e", " ", "C", "o", "d", "e", ":", " ">> \o ExcText)
    \* response.strip() of a value that is no str
    ELSE IF Truthy(parsed.final) /\ ~IsStr(parsed.final)
    THEN Failure(<<"E", "r", "r", "o", "r", " ", "r", "u", "n", "n", "i", "n", "g", " ", "C", "l", "a", "u", "d", "e", " ", "C", "o", "d", "e", ":", " ">> \o ExcText)
    \* new_session_id[:8] in the log line
    ELSE IF Truthy(parsed.session) /\ ~Sliceable(parsed.session)
    THEN Failure(<<"E", "r", "r", "o", "r", " ", "r", "u", "n", "n", "i", "n", "g", " ", "C", "l", "a", "u", "d", "e", " ", "C", "o", "d", "e", ":", " ">> \o ExcText)
    ELSE [response |-> Response(parsed.final), tool_uses |-> parsed.tools, thinking |-> parsed.thinking,
          new_session_id |-> parsed.session]

\* The part of _run_claude_code after subprocess.run has returned result.
Completed(o) ==
    IF o.returncode # 0
    THEN Failure(<<"E", "r", "r", "o", "r", " ", "r", "u", "n", "n", "i", "n", "g", " ", "C", "l", "a", "u", "d", "e", " ", "C", "o", "d", "e", " ", "(", "e", "x", "i", "t", " ", "c", "o", "d", "e", " ">> \o IntStr(o.returncode) \o <<")", ":">>
                 \o <<NL>> \o (IF o.stderr # <<>> THEN o.stderr ELSE <<"U", "n", "k", "n", "o", "w", "n", " ", "e", "r", "r", "o", "r">>))
    ELSE Parsed(parse_json_output(o.stdout))

(* The ways the external process ends in the model. *)

SecretKey == <<"s", "k", "-", "a", "1", "B", "2", "c", "3", "D", "4", "e", "5", "F", "6", "g", "7", "H", "8", "i", "9", "J", "0">>

Stdouts == {
    <<>>,
    <<"h", "e", "l", "l", "o">>,
    <<"{", "\"", "r", "e", "s", "u", "l", "t", "\"", ":", "\"", "o", "k", "\"", ",", "\"", "s", "e", "s", "s", "i", "o", "n", "_", "i", "d", "\"", ":", "\"", "s", "1", "\"", "}">>,
    <<"{", "\"", "r", "e", "s", "u", "l", "t", "\"", ":", "\"", "d", "o", "n", "e", "\"", ",", "\"", "s", "e", "s", "s", "i", "o", "n", "_", "i", "d", "\"", ":", "\"", "s", "2", "\"", "}">>,
    <<"{", "\"", "r", "e", "s", "u", "l", "t", "\"", ":", "\"", "t", "h", "e", " ", "k", "e", "y", " ", "i", "s", " ">> \o SecretKey \o <<"\"", "}">>,
    <<"{", "\"", "r", "e", "s", "u", "l", "t", "\"", ":", "\"", "o", "k", "\"", ",", "\"", "c", "o", "n", "t", "e", "n", "t", "\"", ":", "[", "{", "\"", "t", "y", "p", "e", "\"", ":", "\"", "t", "o", "o", "l", "_", "u", "s", "e", "\"", ",", "\"", "n", "a", "m", "e", "\"", ":", "\"", "B", "a", "s", "h", "\"", ",", "\"", "i", "n", "p", "u", "t", "\"", ":", "{", "\"", "c", "o", "m", "m", "a", "n", "d", "\"", ":", "\"", "e", "c", "h", "o", " ">> \o SecretKey
        \o <<"\"", "}", "}", "]", "}">>,
    <<"{", "\"", "r", "e", "s", "u", "l", "t", "\"", ":", "\"", "o", "k", "\"", ",", "\"", "c", "o", "n", "t", "e", "n", "t", "\"", ":", "[", "{", "\"", "t", "y", "p", "e", "\"", ":", "\"", "t", "h", "i", "n", "k", "i", "n", "g", "\"", ",", "\"", "t", "h", "i", "n", "k", "i", "n", "g", "\"", ":", "\"", "t", "h", "e", " ", "p", "a", "s", "s", "w", "o", "r", "d", ":", " ", "h", "u", "n", "t", "e", "r", "2", "h", "u", "n", "t", "e", "r", "2", "\"", "}", "]", "}">>,
    <<"{", "\"", "r", "e", "s", "u", "l", "t", "\"", ":", "\"", "S", "c", "r", "e", "e", "n", "s", "h", "o", "t", " ", "s", "a", "v", "e", "d", " ", "t", "o", " ", "/", "t", "m", "p", "/", "a", ".", "p", "n", "g", "\"", "}">>,
    <<"{", "\"", "r", "e", "s", "u", "l", "t", "\"", ":", "\"", "o", "k", "\"", ",", "\"", "s", "e", "s", "s", "i", "o", "n", "_", "i", "d", "\"", ":", "[", "\"", "s", "3", "\"", "]", "}">>,
    <<"{", "\"", "r", "e", "s", "u", "l", "t", "\"", ":", "\"", "o", "k", "\"", ",", "\"", "s", "e", "s", "s", "i", "o", "n", "_", "i", "d", "\"", ":", "\"", "\"", "}">>,
    <<"{", "\"", "r", "e", "s", "u", "l", "t", "\"", ":", "5", "}">>,
    <<"{", "\"", "u", "s", "a", "g", "e", "\"", ":", "\"", "x", "\"", "}">>
}

Stderrs == {<<>>, <<"b", "o", "o", "m">>, <<"b", "a", "d", " ", "t", "o", "k", "e", "n", ":", " ">> \o Alnum24}

Exit(returncode, stdout, stderr) ==
    [kind |-> "exit", returncode |-> returncode, stdout |-> stdout, stderr |-> stderr]

Outcomes ==
    {Exit(0, out, <<>>) : out \in Stdouts}
    \cup {Exit(1, <<>>, err) : err \in Stderrs}
    \cup {[kind |-> k, returncode |-> 0, stdout |-> <<>>, stderr |-> <<>>] : k \in {"timeout", "notfound", "error"}}

\* Completed(o) of every outcome of the model, computed once.
CompletedOutcomes == [o \in Outcomes |-> Completed(o)]

\* _run_claude_code(prompt, session_id) when subprocess.run ends as o.
run_claude_code(session_id, o) ==
    \* a session id that is no str makes subprocess.run raise TypeError
    IF Truthy(session_id) /\ ~IsStr(session_id) THEN Failure(<<"E", "r", "r", "o", "r", " ", "r", "u", "n", "n", "i", "n", "g", " ", "C", "l", "a", "u", "d", "e", " ", "C", "o", "d", "e", ":", " ">> \o ExcText)
    ELSE IF o.kind = "timeout" THEN Failure(<<"E", "r", "r", "o", "r", ":", " ", "C", "l", "a", "u", "d", "e", " ", "C", "o", "d", "e", " ", "t", "i", "m", "e", "d", " ", "o", "u", "t", " ", "a", "f", "t", "e", "r", " ", "5", " ", "m", "i", "n", "u", "t", "e", "s">>)
    ELSE IF o.kind = "notfound"
    THEN Failure(<<"E", "r", "r", "o", "r", ":", " ", "C", "l", "a", "u", "d", "e", " ", "C", "o", "d", "e", " ", "C", "L", "I", " ", "n", "o", "t", " ", "f", "o", "u", "n", "d", ".", " ", "M", "a", "k", "e", " ", "s", "u", "r", "e", " ", "'", "c", "l", "a", "u", "d", "e", "'", " ", "i", "s", " ", "i", "n", "s", "t", "a", "l", "l", "e", "d", " ", "a", "n", "d", " ", "i", "n", " ", "P", "A", "T", "H", ".">>)
    ELSE IF o.kind = "error" THEN Failure(<<"E", "r", "r", "o", "r", " ", "r", "u", "n", "n", "i", "n", "g", " ", "C", "l", "a", "u", "d", "e", " ", "C", "o", "d", "e", ":", " ">> \o ExcText)
    ELSE CompletedOutcomes[o]

\* The --continue argument of the command line: None when the flag is not passed.
ContinueArg(session_id) == IF Truthy(session_id) THEN session_id ELSE None

Bullet == <<"U+2022">>
IconBrain == <<"U+1F9E0">>
IconGear == <<"U+2699", "U+FE0F">>
Separator == [i \in 1..15 |-> "U+2500"]

MAX_SHOWN_THINKING == 3
MAX_SHOWN_TOOLS == 10

Prefix(xs, n) == SubSeq(xs, 1, IF Len(xs) < n THEN Len(xs) ELSE n)

\* The lines process_message builds from a _run_claude_code result.
Parts(ret, isVerbose) ==
    LET thoughts == Prefix(ret.thinking, MAX_SHOWN_THINKING)
        tools == Prefix(ret.tool_uses, MAX_SHOWN_TOOLS)
        thinkingPart ==
            IF isVerbose /\ ret.thinking # <<>>
            THEN <<IconBrain \o <<" ", "*", "*", "T", "h", "i", "n", "k", "i", "n", "g", ":", "*", "*">>>>
                 \o [i \in 1..Len(thoughts) |-> <<"_">> \o Str(thoughts[i]) \o <<"_">>]
                 \o <<<<>>>>
            ELSE <<>>
        toolPart ==
            IF isVerbose /\ ret.tool_uses # <<>>
            THEN <<IconGear \o <<" ", "*", "*", "A", "c", "t", "i", "o", "n", "s", ":", "*", "*">>>>
                 \o [i \in 1..Len(tools) |-> <<" ", " ">> \o Bullet \o <<" ">> \o tools[i]]
                 \o (IF Len(ret.tool_uses) > MAX_SHOWN_TOOLS
                     THEN <<<<" ", " ", "_", ".", ".", ".", "a", "n", "d", " ">> \o IntStr(Len(ret.tool_uses) - MAX_SHOWN_TOOLS) \o <<" ", "m", "o", "r", "e", "_">>>>
                     ELSE <<>>)
                 \o <<<<>>>>
            ELSE <<>>
        info == thinkingPart \o toolPart
    IN (IF info # <<>> THEN info \o <<Separator, <<>>>> ELSE <<>>) \o <<ret.response>>

\* screenshot[s]?\s+saved?\s+(?:to|at)\s+["\']?([^"\'>\s]+), one pattern per alternative
ScreenshotPattern(word) ==
    Lit(<<"s", "c", "r", "e", "e", "n", "s", "h", "o", "t">>) \o <<Rep({"s"}, 0, 1), Rep(Whitespace, 1, Inf)>> \o Lit(<<"s", "a", "v", "e">>)
      \o <<Rep({"d"}, 0, 1), Rep(Whitespace, 1, Inf)>> \o Lit(word)
      \o <<Rep(Whitespace, 1, Inf), Rep(QuoteChars, 0, 1), NotRep(QuoteChars \cup {">"} \cup Whitespace, 1, Inf)>>

ScreenshotPatterns == {ScreenshotPattern(<<"t", "o">>), ScreenshotPattern(<<"a", "t">>)}

\* The first item of both patterns.
ScreenshotFirst == Lit(<<"s">>)[1]

\* re.search(pattern, response, re.IGNORECASE) is not None
\* (a match can only start where the first item of the pattern accepts the text)
MentionsScreenshot(response) ==
    \E pos \in {i \in 1..Len(response) : InClass(ScreenshotFirst, response[i])} :
        \E pattern \in ScreenshotPatterns : MatchFrom(pattern, 0, 1, response, pos) # <<>>

-----------------------------------------------------------------------------
(* Conversation: the transcript of a user, capped at max_messages pairs.    *)
(* The timestamp of a message is never read and is left out.                *)

ConversationMessage(role, content) == [role |-> role, content |-> content]

MAX_MESSAGES == 10

\* Conversation(max_messages=...)
Conversation(max_messages) == [messages |-> <<>>, max_messages |-> max_messages]

\* seq[start:] for a start that may be negative (then counted from the end) or zero.
SliceFrom(seq, start) ==
    LET from == IF start < 0 THEN (IF Len(seq) + start < 0 THEN 0 ELSE Len(seq) + start)
                ELSE (IF start > Len(seq) THEN Len(seq) ELSE start)
    IN SubSeq(seq, from + 1, Len(seq))

\* A variant of trim that keeps the oldest messages.
trimNewest(self) ==
    LET max_items == self.max_messages * 2
    IN IF Len(self.messages) > max_items
       THEN [self EXCEPT !.messages = SubSeq(@, 1, max_items)]
       ELSE self

\* _trim()
trim(self) ==
    LET max_items == self.max_messages * 2
    IN IF Len(self.messages) > max_items
       THEN [self EXCEPT !.messages = SliceFrom(@, 0 - max_items)]
       ELSE self

add_user_message(self, content) ==
    trim([self EXCEPT !.messages = Append(@, ConversationMessage("user", content))])

add_assistant_message(self, content) ==
    trim([self EXCEPT !.messages = Append(@, ConversationMessage("assistant", content))])

\* A variant of clear that leaves the messages.
clearNothing(self) == self

\* clear()
clear(self) == [self EXCEPT !.messages = <<>>]

-----------------------------------------------------------------------------
(* The state of the components a specification leaves alone. *)

RInitIdle == rHist = <<>>

PInitIdle == /\ pOutput = <<>>
             /\ pResult = <<>>
             /\ pPc = "idle"

\* A key a dict does not hold.
Absent == [t |-> "absent", v |-> 0]

\* The record of an operation that is neither a turn nor a clear_conversation, or of none yet.
NoTurn == [user |-> 0, cleared |-> 0]

AInitIdle == /\ session_ids = <<>>
             /\ conversations = <<>>
             /\ verbose = TRUE
             /\ turn = NoTurn
             /\ delivered = <<>>
             /\ returned = <<>>

CInitIdle == /\ conversation = <<>>
             /\ inserted = <<>>

\* The record of no update handled yet.
NoUpdate == [user |-> 0, handler |-> "none", claude |-> FALSE, ollama |-> FALSE]

OInitIdle == /\ ollama_mode_users = {}
             /\ ollama_agent = <<>>
             /\ handled = NoUpdate

BInitIdle == /\ updates = <<>>
             /\ inflight = <<>>
             /\ OInitIdle

TInitIdle == /\ state = <<>>
             /\ now = 0
             /\ emissions = <<>>
             /\ events = <<>>

-----------------------------------------------------------------------------
(* Parser specification: parse_json_output applied to a raw output that is  *)
(* either one JSON object of up to MaxFields members of FieldVocab, with    *)
(* optional surrounding whitespace, or up to MaxLines lines of LineVocab.   *)

MaxFields == 2
MaxLines == 3

FieldVocab == {
    <<"\"", "r", "e", "s", "u", "l", "t", "\"", ":", "\"", "o", "k", "\"">>,
    <<"\"", "r", "e", "s", "u", "l", "t", "\"", ":", "\"", "\"">>,
    <<"\"", "r", "e", "s", "u", "l", "t", "\"", ":", "n", "u", "l", "l">>,
    <<"\"", "r", "e", "s", "p", "o", "n", "s", "e", "\"", ":", "\"", "h", "i", "\"">>,
    <<"\"", "c", "o", "n", "t", "e", "n", "t", "\"", ":", "[", "{", "\"", "t", "y", "p", "e", "\"", ":", "\"", "t", "e", "x", "t", "\"", ",", "\"", "t", "e", "x", "t", "\"", ":", "\"", "A", "\"", "}", ",", "{", "\"", "t", "y", "p", "e", "\"", ":", "\"", "t", "e", "x", "t", "\"", ",", "\"", "t", "e", "x", "t", "\"", ":", "\"", "B", "\"", "}", "]">>,
    <<"\"", "c", "o", "n", "t", "e", "n", "t", "\"", ":", "[", "{", "\"", "t", "y", "p", "e", "\"", ":", "\"", "t", "o", "o", "l", "_", "u", "s", "e", "\"", ",", "\"", "n", "a", "m", "e", "\"", ":", "\"", "B", "a", "s", "h", "\"", ",", "\"", "i", "n", "p", "u", "t", "\"", ":", "{", "\"", "c", "o", "m", "m", "a", "n", "d", "\"", ":", "\"", "l", "s", "\"", "}", "}", "]">>,
    <<"\"", "m", "e", "s", "s", "a", "g", "e", "s", "\"", ":", "[", "{", "\"", "c", "o", "n", "t", "e", "n", "t", "\"", ":", "[", "{", "\"", "t", "y", "p", "e", "\"", ":", "\"", "t", "o", "o", "l", "_", "u", "s", "e", "\"", ",", "\"", "n", "a", "m", "e", "\"", ":", "\"", "R", "e", "a", "d", "\"", ",", "\"", "i", "n", "p", "u", "t", "\"", ":", "{", "\"", "p", "a", "t", "h", "\"", ":", "\"", "a", "\"", "}", "}", "]", "}", "]">>,
    <<"\"", "u", "s", "a", "g", "e", "\"", ":", "{", "\"", "s", "e", "r", "v", "e", "r", "_", "t", "o", "o", "l", "_", "u", "s", "e", "\"", ":", "{", "\"", "w", "e", "b", "_", "s", "e", "a", "r", "c", "h", "_", "r", "e", "q", "u", "e", "s", "t", "s", "\"", ":", "2", "}", "}">>,
    <<"\"", "u", "s", "a", "g", "e", "\"", ":", "\"", "x", "\"">>,
    <<"\"", "s", "e", "s", "s", "i", "o", "n", "_", "i", "d", "\"", ":", "\"", "s", "1", "\"">>,
    <<"\"", "s", "e", "s", "s", "i", "o", "n", "_", "i", "d", "\"", ":", "n", "u", "l", "l">>,
    <<"\"", "s", "e", "s", "s", "i", "o", "n", "I", "d", "\"", ":", "\"", "s", "2", "\"">>,
    <<"\"", "u", "u", "i", "d", "\"", ":", "\"", "s", "3", "\"">>
}

DeltaA == <<"{", "\"", "t", "y", "p", "e", "\"", ":", "\"", "c", "o", "n", "t", "e", "n", "t", "_", "b", "l", "o", "c", "k", "_", "d", "e", "l", "t", "a", "\"", ",", "\"", "d", "e", "l", "t", "a", "\"", ":", "{", "\"", "t", "y", "p", "e", "\"", ":", "\"", "t", "e", "x", "t", "_", "d", "e", "l", "t", "a", "\"", ",", "\"", "t", "e", "x", "t", "\"", ":", "\"", "A", "\"", "}", "}">>
DeltaB == <<"{", "\"", "t", "y", "p", "e", "\"", ":", "\"", "c", "o", "n", "t", "e", "n", "t", "_", "b", "l", "o", "c", "k", "_", "d", "e", "l", "t", "a", "\"", ",", "\"", "d", "e", "l", "t", "a", "\"", ":", "{", "\"", "t", "y", "p", "e", "\"", ":", "\"", "t", "e", "x", "t", "_", "d", "e", "l", "t", "a", "\"", ",", "\"", "t", "e", "x", "t", "\"", ":", "\"", "B", "\"", "}", "}">>
DeltaC == <<"{", "\"", "t", "y", "p", "e", "\"", ":", "\"", "c", "o", "n", "t", "e", "n", "t", "_", "b", "l", "o", "c", "k", "_", "d", "e", "l", "t", "a", "\"", ",", "\"", "d", "e", "l", "t", "a", "\"", ":", "{", "\"", "t", "y", "p", "e", "\"", ":", "\"", "t", "e", "x", "t", "_", "d", "e", "l", "t", "a", "\"", ",", "\"", "t", "e", "x", "t", "\"", ":", "\"", "C", "\"", "}", "}">>
DeltaEmpty == <<"{", "\"", "t", "y", "p", "e", "\"", ":", "\"", "c", "o", "n", "t", "e", "n", "t", "_", "b", "l", "o", "c", "k", "_", "d", "e", "l", "t", "a", "\"", ",", "\"", "d", "e", "l", "t", "a", "\"", ":", "{", "\"", "t", "y", "p", "e", "\"", ":", "\"", "t", "e", "x", "t", "_", "d", "e", "l", "t", "a", "\"", ",", "\"", "t", "e", "x", "t", "\"", ":", "\"", "\"", "}", "}">>

LineVocab == {
    DeltaA, DeltaB, DeltaC, DeltaEmpty,
    <<"h", "e", "l", "l", "o">>,
    <<" ", "t", "w", "o", " ", "w", "o", "r", "d", "s", " ">>,
    <<" ">>,
    <<"5">>,
    <<"{", "\"", "t", "y", "p", "e", "\"", ":", "\"", "t", "e", "x", "t", "\"", ",", "\"", "t", "e", "x", "t", "\"", ":", "\"", "T", "\"", ",", "\"", "s", "e", "s", "s", "i", "o", "n", "_", "i", "d", "\"", ":", "\"", "s", "1", "\"", "}">>,
    <<"{", "\"", "t", "y", "p", "e", "\"", ":", "\"", "t", "o", "o", "l", "_", "u", "s", "e", "\"", ",", "\"", "n", "a", "m", "e", "\"", ":", "\"", "B", "a", "s", "h", "\"", ",", "\"", "i", "n", "p", "u", "t", "\"", ":", "{", "\"", "c", "o", "m", "m", "a", "n", "d", "\"", ":", "\"", "l", "s", "\"", "}", "}">>
}

Paddings == {<<>>, <<" ">>, <<NL>>}

Documents ==
    {pre \o <<"{">> \o Join(<<",">>, fs) \o <<"}">> \o post :
        pre \in Paddings, post \in Paddings,
        fs \in UNION {[1..n -> FieldVocab] : n \in 0..MaxFields}}

Streams == {Join(<<NL>>, ls) : ls \in UNION {[1..n -> LineVocab] : n \in 0..MaxLines}}

PInit == /\ pOutput \in Documents \cup Streams
         /\ pResult = <<>>
         /\ pPc = "start"
         /\ RInitIdle
         /\ AInitIdle
         /\ CInitIdle
         /\ BInitIdle
         /\ TInitIdle

\* The call parse_json_output(pOutput).
Parse ==
    /\ pPc = "start"
    /\ pResult' = parse_json_output(pOutput)
    /\ pPc' = "done"
    /\ UNCHANGED <<pOutput, redactorVars, agentVars, conversationVars, botVars, statusVars>>

PNext == Parse

SpecParse == PInit /\ [][PNext]_vars


-----------------------------------------------------------------------------
(* Thinking specification: parse_json_output applied to a raw output that   *)
(* carries 1 to MaxBlocks thinking blocks, on one of the extraction paths,  *)
(* with texts whose lengths lie around THINKING_MIN and THINKING_MAX.       *)

MaxBlocks == 2

\* A reasoning text of n characters.
Reasoning(n) == [i \in 1..n |-> "x"]

ReasoningLengths ==
    {1, THINKING_MIN - 1, THINKING_MIN, THINKING_MIN + 1, THINKING_MAX, THINKING_MAX + 1}

ThinkingBlock(n) == <<"{", "\"", "t", "y", "p", "e", "\"", ":", "\"", "t", "h", "i", "n", "k", "i", "n", "g", "\"", ",", "\"", "t", "h", "i", "n", "k", "i", "n", "g", "\"", ":", "\"">> \o Reasoning(n) \o <<"\"", "}">>

BlockLists == UNION {[1..k -> {ThinkingBlock(n) : n \in ReasoningLengths}] : k \in 1..MaxBlocks}

\* a list only the recursive visitor reads, the top-level `content` list, the
\* `content` list of a message, and one event per line
ThinkingOutputs ==
    {<<"{", "\"", "b", "l", "o", "c", "k", "s", "\"", ":", "[">> \o Join(<<",">>, bs) \o <<"]", "}">> : bs \in BlockLists}
    \cup {<<"{", "\"", "c", "o", "n", "t", "e", "n", "t", "\"", ":", "[">> \o Join(<<",">>, bs) \o <<"]", "}">> : bs \in BlockLists}
    \cup {<<"{", "\"", "m", "e", "s", "s", "a", "g", "e", "s", "\"", ":", "[", "{", "\"", "c", "o", "n", "t", "e", "n", "t", "\"", ":", "[">> \o Join(<<",">>, bs) \o <<"]", "}", "]", "}">> : bs \in BlockLists}
    \cup {Join(<<NL>>, bs) : bs \in BlockLists}

KInit == /\ pOutput \in ThinkingOutputs
         /\ pResult = <<>>
         /\ pPc = "start"
         /\ RInitIdle
         /\ AInitIdle
         /\ CInitIdle
         /\ BInitIdle
         /\ TInitIdle

SpecThinking == KInit /\ [][PNext]_vars
-----------------------------------------------------------------------------
(* Redactor specification: redact_secrets applied, again and again, to a    *)
(* text made of up to MaxSegs segments of RedactVocab.                      *)

MaxSegs == 3
MaxApply == 2


RedactVocab == {
    <<"t", "o", "k", "e", "n", ":", " ">>, <<"g", "h", "p", "_">>, Alnum36,
    <<"A", "P", "I", "_", "K", "E", "Y", "=">>, <<"s", "k", "-", "a", "n", "t", "-">>, Alnum24,
    <<"p", "w", "d", "=">>, Alnum8, <<"'", "x">>,
    <<"p", "o", "s", "t", "g", "r", "e", "s", ":", "/", "/", "u", ":">>, <<"@", "h", " ">>, <<"h", "e", "l", "l", "o", " ">>
}

RedactInputs == {Flatten(ss) : ss \in UNION {[1..n -> RedactVocab] : n \in 0..MaxSegs}}

RInit == /\ rHist \in {<<x>> : x \in RedactInputs}
         /\ PInitIdle
         /\ AInitIdle
         /\ CInitIdle
         /\ BInitIdle
         /\ TInitIdle

\* One call of redact_secrets on the latest text.
Redact ==
    /\ Len(rHist) <= MaxApply
    /\ rHist' = Append(rHist, redact_secrets(rHist[Len(rHist)]))
    /\ UNCHANGED <<parserVars, agentVars, conversationVars, botVars, statusVars>>

RNext == Redact

SpecRedact == RInit /\ [][RNext]_vars

-----------------------------------------------------------------------------
(* Agent specification: turns and clears of MaxUsers users, the external    *)
(* process ending each turn with one of Outcomes.                           *)

MaxUsers == 2
Users == 1..MaxUsers

AInit == /\ session_ids = [u \in Users |-> Absent]
         /\ conversations = [u \in Users |-> Absent]
         /\ verbose = TRUE
         /\ turn = NoTurn
         /\ delivered = <<>>
         /\ returned = [u \in Users |-> [nonnull |-> None, nonempty |-> None]]
         /\ RInitIdle
         /\ PInitIdle
         /\ CInitIdle
         /\ BInitIdle
         /\ TInitIdle

\* A variant of Store that stores whatever is returned.
StoreAlways(u, new_session_id) == [session_ids EXCEPT ![u] = new_session_id]

\* A variant of Store that forgets the stored session id when none is returned.
StoreOrForget(u, new_session_id) ==
    [session_ids EXCEPT ![u] = IF Truthy(new_session_id) THEN new_session_id ELSE Absent]

\* A variant of Store that keeps the first session id of a user.
StoreFirstOnly(u, new_session_id) ==
    IF Truthy(new_session_id) /\ session_ids[u] = Absent
    THEN [session_ids EXCEPT ![u] = new_session_id]
    ELSE session_ids

\* if new_session_id: self.session_ids[user_id] = new_session_id
\* A variant of Store that keeps one session id for all users.
StoreForAll(u, new_session_id) ==
    IF Truthy(new_session_id) THEN [v \in Users |-> new_session_id] ELSE session_ids

Store(u, new_session_id) ==
    IF Truthy(new_session_id) THEN [session_ids EXCEPT ![u] = new_session_id] ELSE session_ids

\* The history after a turn of u that returned new_session_id.
Noted(u, new_session_id) ==
    [returned EXCEPT ![u] = [nonnull |-> IF new_session_id # None THEN new_session_id ELSE @.nonnull,
                             nonempty |-> IF Truthy(new_session_id) THEN new_session_id ELSE @.nonempty]]

\* The part of process_message after _run_claude_code has returned ret; the
\* attachment is the file the response names, when it can be read ("bytes").
Deliver(u, session_id, o, ret) ==
    /\ session_ids' = Store(u, ret.new_session_id)
    /\ returned' = Noted(u, ret.new_session_id)
    /\ turn' = [user |-> u, continued |-> ContinueArg(session_id), outcome |-> o, ret |-> ret]
    /\ \E image \in (IF MentionsScreenshot(ret.response) THEN {"bytes", "none"} ELSE {"none"}) :
         delivered' = <<[text |-> Join(<<NL>>, Parts(ret, verbose)), image |-> image]>>
    /\ UNCHANGED <<conversations, verbose>>

\* session_id = self.session_ids.get(user_id)
StoredSession(u) == IF session_ids[u] = Absent THEN None ELSE session_ids[u]

\* process_message(user_id, message), the external process ending as o.
ProcessMessage(u, o) == Deliver(u, StoredSession(u), o, run_claude_code(StoredSession(u), o))

\* clear_conversation(user_id)
ClearConversation(u) ==
    /\ conversations' = IF conversations[u] # Absent
                        THEN [conversations EXCEPT ![u] = clear(@)]
                        ELSE conversations
    /\ session_ids' = [session_ids EXCEPT ![u] = Absent]
    /\ turn' = [user |-> 0, cleared |-> u, session |-> session_ids[u] # Absent,
                messages |-> IF conversations[u] # Absent THEN Len(conversations[u].messages) ELSE 0]
    /\ returned' = [returned EXCEPT ![u] = [nonnull |-> None, nonempty |-> None]]
    /\ UNCHANGED <<verbose, delivered>>

ANext ==
    \/ \E u \in Users, o \in Outcomes :
         ProcessMessage(u, o) /\ UNCHANGED <<redactorVars, parserVars, conversationVars, botVars, statusVars>>
    \/ \E u \in Users : ClearConversation(u) /\ UNCHANGED <<redactorVars, parserVars, conversationVars, botVars, statusVars>>

SpecAgent == AInit /\ [][ANext]_vars

-----------------------------------------------------------------------------
(* Properties of redact_secrets, over SpecRedact: rHist[1] is a text,       *)
(* rHist[2] its redaction and rHist[3] the redaction of rHist[2].           *)

\* C9: redact_secrets is idempotent: redacting a redacted text changes nothing.
C9_Idempotent == Len(rHist) >= 3 => rHist[3] = rHist[2]

\* C10: `token: ghp_` and 36 alphanumeric characters is redacted to
\* `token: [REDACTED_GITHUB_TOKEN]`, exactly.
C10_GithubMarker ==
    (Len(rHist) >= 2 /\ rHist[1] = <<"t", "o", "k", "e", "n", ":", " ", "g", "h", "p", "_">> \o Alnum36) =>
        rHist[2] = <<"t", "o", "k", "e", "n", ":", " ", "[", "R", "E", "D", "A", "C", "T", "E", "D", "_", "G", "I", "T", "H", "U", "B", "_", "T", "O", "K", "E", "N", "]">>

\* C11: `API_KEY=sk-ant-` and 24 characters is redacted with a marker that names
\* the provider ([REDACTED_...]), not with the generic [REDACTED].
C11_ProviderMarker ==
    (Len(rHist) >= 2 /\ rHist[1] = <<"A", "P", "I", "_", "K", "E", "Y", "=", "s", "k", "-", "a", "n", "t", "-">> \o Alnum24) =>
        /\ Contains(<<"[", "R", "E", "D", "A", "C", "T", "E", "D", "_">>, rHist[2])
        /\ ~Contains(<<"[", "R", "E", "D", "A", "C", "T", "E", "D", "]">>, rHist[2])

-----------------------------------------------------------------------------
(* Properties of parse_json_output, over SpecParse.                         *)

Decoded == json_loads(pOutput)
Returned == pPc = "done" /\ ~pResult.raised

\* C1: parse_json_output never raises, whatever the JSON types of the fields of its input.
C1_NeverRaises == pPc = "done" => ~pResult.raised

\* C2 as stated: for every raw output the final text is non-empty.
C2_FinalNeverEmpty == Returned => Truthy(pResult.final)

\* C2, amended: whenever parse_json_output returns, the final text is non-empty
\* for a non-empty raw output and is the empty raw output for an empty one.
C2_FinalEmptyOnlyForEmptyOutput ==
    Returned => IF pOutput = <<>> THEN pResult.final = PyStr(<<>>) ELSE Truthy(pResult.final)

\* a document without a final-text field: the final text is the raw output
C2_FallbackWitness ==
    /\ Returned
    /\ Decoded.ok /\ IsDict(Decoded.val)
    /\ ~HasKey(Decoded.val, <<"r", "e", "s", "u", "l", "t">>) /\ ~HasKey(Decoded.val, <<"r", "e", "s", "p", "o", "n", "s", "e">>)
    /\ ~HasKey(Decoded.val, <<"c", "o", "n", "t", "e", "n", "t">>)
    /\ pResult.final = PyStr(pOutput)

HasResultString ==
    /\ Decoded.ok /\ IsDict(Decoded.val)
    /\ HasKey(Decoded.val, <<"r", "e", "s", "u", "l", "t">>)
    /\ IsStr(Item(Decoded.val, <<"r", "e", "s", "u", "l", "t">>))

ResultString == Item(Decoded.val, <<"r", "e", "s", "u", "l", "t">>)

NonBlankLines(output) ==
    LET lines == SplitLines(Strip(output))
    IN SelectSeq([i \in 1..Len(lines) |-> Strip(lines[i])], LAMBDA line : line # <<>>)

\* Plain text: neither the output nor any of its lines decodes as JSON.
PlainText(output) ==
    /\ ~json_loads(output).ok
    /\ \A i \in 1..Len(NonBlankLines(output)) : ~json_loads(NonBlankLines(output)[i]).ok

IsTextDelta(line) ==
    LET event == json_loads(line)
        delta == Get(event.val, <<"d", "e", "l", "t", "a">>, None)
    IN /\ event.ok /\ IsDict(event.val)
       /\ EqStr(Get(event.val, <<"t", "y", "p", "e">>, None), <<"c", "o", "n", "t", "e", "n", "t", "_", "b", "l", "o", "c", "k", "_", "d", "e", "l", "t", "a">>)
       /\ IsDict(delta)
       /\ EqStr(Get(delta, <<"t", "y", "p", "e">>, None), <<"t", "e", "x", "t", "_", "d", "e", "l", "t", "a">>)
       /\ IsStr(Get(delta, <<"t", "e", "x", "t">>, None))

Payload(line) == Get(Get(json_loads(line).val, <<"d", "e", "l", "t", "a">>, None), <<"t", "e", "x", "t">>, None).v

DeltaStream(output) == \A i \in 1..Len(SplitLines(output)) : IsTextDelta(SplitLines(output)[i])

Payloads(output) == Flatten([i \in 1..Len(SplitLines(output)) |-> Payload(SplitLines(output)[i])])

\* C5 as stated: for a stream of text_delta lines the final text is the
\* concatenation of the payloads in line order.
C5_DeltasConcatenated ==
    (pPc = "done" /\ DeltaStream(pOutput)) =>
        (~pResult.raised /\ pResult.final = PyStr(Payloads(pOutput)))

\* C5, amended: for a stream of two or more text_delta lines whose payloads are
\* not all empty the final text is the concatenation of the payloads in line
\* order; for a single line, or payloads that are all empty, it is the raw output.
C5_SeveralDeltasConcatenated ==
    (pPc = "done" /\ DeltaStream(pOutput)) =>
        /\ ~pResult.raised
        /\ pResult.final = PyStr(IF Len(SplitLines(pOutput)) >= 2 /\ Payloads(pOutput) # <<>>
                                 THEN Payloads(pOutput) ELSE pOutput)

\* the three lines carrying A, B and C
C5_AbcWitness ==
    /\ Returned
    /\ pOutput = Join(<<NL>>, <<DeltaA, DeltaB, DeltaC>>)
    /\ pResult.final = PyStr(<<"A", "B", "C">>)

SessionAliases == <<<<"s", "e", "s", "s", "i", "o", "n", "_", "i", "d">>, <<"s", "e", "s", "s", "i", "o", "n", "I", "d">>, <<"s", "e", "s", "s", "i", "o", "n">>, <<"c", "o", "n", "v", "e", "r", "s", "a", "t", "i", "o", "n", "_", "i", "d">>,
                    <<"c", "o", "n", "v", "e", "r", "s", "a", "t", "i", "o", "n", "I", "d">>, <<"c", "o", "n", "v", "e", "r", "s", "a", "t", "i", "o", "n">>, <<"t", "h", "r", "e", "a", "d", "_", "i", "d">>, <<"t", "h", "r", "e", "a", "d", "I", "d">>,
                    <<"i", "d">>, <<"u", "u", "i", "d">>>>

\* The value of the first alias that obj holds with a non-null value, else None.
FirstAlias(obj) ==
    LET held == {k \in 1..Len(SessionAliases) : Get(obj, SessionAliases[k], None) # None}
    IN IF held = {} THEN None
       ELSE Get(obj, SessionAliases[CHOOSE k \in held : \A j \in held : k <= j], None)

\* C6: for a single JSON object the session id is the value of the first
\* non-null alias, in the order of SessionAliases.
C6_FirstAliasIsSession ==
    (Returned /\ Decoded.ok /\ IsDict(Decoded.val)) => pResult.session = FirstAlias(Decoded.val)

\* The alias value of the first line that decodes to an object holding one.
StreamSession(output) ==
    LET lines == NonBlankLines(output)
        carries(i) == LET event == json_loads(lines[i])
                      IN event.ok /\ IsDict(event.val) /\ FirstAlias(event.val) # None
        carriers == {i \in 1..Len(lines) : carries(i)}
    IN IF carriers = {} THEN None
       ELSE FirstAlias(json_loads(lines[CHOOSE i \in carriers : \A j \in carriers : i <= j]).val)

\* C7: for a stream of lines the session id is that of the first line carrying
\* an alias, and there is none only if no line carries one.
C7_FirstLineSession ==
    (Returned /\ ~Decoded.ok) => pResult.session = StreamSession(pOutput)

-----------------------------------------------------------------------------
(* Properties of Agent.process_message, over SpecAgent.                     *)

\* No rule of SECRET_PATTERNS matches in text.
Clean(text) == redact_secrets(text) = text

\* C8: every text process_message returns (the response, each tool line, each
\* thinking excerpt, the error message made from stderr) has been redacted:
\* no rule of SECRET_PATTERNS matches in it.
C8_DeliveredTextRedacted ==
    turn.user # 0 =>
        /\ Clean(turn.ret.response)
        /\ \A i \in 1..Len(turn.ret.tool_uses) : Clean(turn.ret.tool_uses[i])
        /\ \A i \in 1..Len(turn.ret.thinking) : Clean(Str(turn.ret.thinking[i]))
        /\ Clean(delivered[1].text)

\* The process invocation failed: timeout, binary not found, another
\* exception of subprocess.run, or a non-zero exit code.
FailedOutcome(o) == o.kind # "exit" \/ o.returncode # 0

\* The step is process_message(u, ...) with the process ending as o.
IsTurn(u, o) == turn'.user = u /\ turn'.outcome = o

\* The step is clear_conversation(u).
IsClear(u) == turn'.user = 0 /\ turn'.cleared = u

\* C12: a turn whose process invocation fails leaves the stored session ids and
\* the transcripts as they were, and returns a message with no tool uses, no
\* thinking and no session id.
C12_FailedTurnKeepsState ==
    [][\A u \in Users, o \in Outcomes :
         (FailedOutcome(o) /\ IsTurn(u, o)) =>
             /\ session_ids' = session_ids
             /\ conversations' = conversations
             /\ turn'.ret.tool_uses = <<>> /\ turn'.ret.thinking = <<>>
             /\ turn'.ret.new_session_id = None]_vars

\* a failed turn of a user who had a session id, which is still stored
C12_FailedTurnWitness ==
    /\ turn.user # 0
    /\ FailedOutcome(turn.outcome)
    /\ turn.continued # None
    /\ session_ids[turn.user] = turn.continued

\* self.session_ids.get(u) is not None
HasSession(u) == StoredSession(u) # None

\* C13: a user who has a stored session id has one after every step that is
\* not clear_conversation of that user.
C13_SessionKeptUntilClear ==
    [][\A u \in Users :
         (HasSession(u) /\ ~IsClear(u)) => HasSession(u)']_vars

\* a user still has a session id after a failed turn of another user
C13_KeptWitness ==
    /\ turn.user # 0
    /\ FailedOutcome(turn.outcome)
    /\ \E u \in Users : u # turn.user /\ HasSession(u)


\* C14 as stated: on every turn the id passed with the continuation flag is
\* the id returned by the user's most recent turn that returned a non-null id
\* since the last clear, and no continuation flag is passed when there is none.
C14_ContinuesLastNonNull ==
    [][\A u \in Users, o \in Outcomes :
         IsTurn(u, o) => turn'.continued = returned[u].nonnull]_vars

\* C14, amended: on every turn the id passed with the continuation flag is the
\* id returned by the user's most recent turn that returned a non-empty
\* (truthy) id since the last clear, and no continuation flag is passed when
\* there is none.
C14_ContinuesLastNonEmpty ==
    [][\A u \in Users, o \in Outcomes :
         IsTurn(u, o) => turn'.continued = returned[u].nonempty]_vars

\* A turn continued the session that an earlier turn returned, although the
\* turn just before it (now recorded as the latest) returned another id.
C14_ContinuedWitness ==
    /\ turn.user # 0 /\ turn.continued # None
    /\ turn.ret.new_session_id # None
    /\ turn.ret.new_session_id # turn.continued
    /\ session_ids[turn.user] = turn.ret.new_session_id
-----------------------------------------------------------------------------
(* Conversation specification: one Conversation constructed with a cap of   *)
(* 1..MaxCap pairs, to which at most MaxAdds messages are added between two *)
(* clears, in any order of the two roles.                                   *)

MaxCap == 2
\* enough adds for one pair more than the largest cap
MaxAdds == 2 * (MaxCap + 1)
Contents == {<<"a">>, <<"b">>}

CInit == /\ conversation \in {Conversation(max_messages) : max_messages \in 1..MaxCap}
         /\ inserted = <<>>
         /\ RInitIdle
         /\ PInitIdle
         /\ AInitIdle
         /\ BInitIdle
         /\ TInitIdle

AddUser(content) ==
    /\ Len(inserted) < MaxAdds
    /\ conversation' = add_user_message(conversation, content)
    /\ inserted' = Append(inserted, ConversationMessage("user", content))
    /\ UNCHANGED <<redactorVars, parserVars, agentVars, botVars, statusVars>>

AddAssistant(content) ==
    /\ Len(inserted) < MaxAdds
    /\ conversation' = add_assistant_message(conversation, content)
    /\ inserted' = Append(inserted, ConversationMessage("assistant", content))
    /\ UNCHANGED <<redactorVars, parserVars, agentVars, botVars, statusVars>>

ClearMessages ==
    /\ conversation' = clear(conversation)
    /\ inserted' = <<>>
    /\ UNCHANGED <<redactorVars, parserVars, agentVars, botVars, statusVars>>

CNext ==
    \/ \E content \in Contents : AddUser(content)
    \/ \E content \in Contents : AddAssistant(content)
    \/ ClearMessages

SpecConversation == CInit /\ [][CNext]_vars

-----------------------------------------------------------------------------
(* Store specification: the sessions and the transcripts of MaxUsers users. *)
(* Besides turns (ending as one of StoreOutcomes) and clears, a client of   *)
(* the Agent records messages in the Conversation that _get_conversation    *)
(* hands out, at most MaxMessages in each.                                  *)

MaxMessages == 1

StoreOutcomes ==
    {o \in Outcomes : o.kind = "timeout" \/ o.stdout = <<"{", "\"", "r", "e", "s", "u", "l", "t", "\"", ":", "\"", "o", "k", "\"", ",", "\"", "s", "e", "s", "s", "i", "o", "n", "_", "i", "d", "\"", ":", "\"", "s", "1", "\"", "}">>}

\* self.conversations after _get_conversation(user_id)
get_conversation(user_id) ==
    IF conversations[user_id] = Absent
    THEN [conversations EXCEPT ![user_id] = Conversation(MAX_MESSAGES)]
    ELSE conversations

GetConversation(u) ==
    /\ conversations' = get_conversation(u)
    /\ turn' = NoTurn
    /\ UNCHANGED <<session_ids, verbose, delivered, returned>>

\* _get_conversation(user_id).add_user_message(content)
RecordUser(u, content) ==
    /\ Len(get_conversation(u)[u].messages) < MaxMessages
    /\ conversations' = [get_conversation(u) EXCEPT ![u] = add_user_message(@, content)]
    /\ turn' = NoTurn
    /\ UNCHANGED <<session_ids, verbose, delivered, returned>>

\* _get_conversation(user_id).add_assistant_message(content)
RecordAssistant(u, content) ==
    /\ Len(get_conversation(u)[u].messages) < MaxMessages
    /\ conversations' = [get_conversation(u) EXCEPT ![u] = add_assistant_message(@, content)]
    /\ turn' = NoTurn
    /\ UNCHANGED <<session_ids, verbose, delivered, returned>>

SNext ==
    \/ \E u \in Users, o \in StoreOutcomes :
         ProcessMessage(u, o) /\ UNCHANGED <<redactorVars, parserVars, conversationVars, botVars, statusVars>>
    \/ \E u \in Users : ClearConversation(u) /\ UNCHANGED <<redactorVars, parserVars, conversationVars, botVars, statusVars>>
    \/ \E u \in Users : GetConversation(u) /\ UNCHANGED <<redactorVars, parserVars, conversationVars, botVars, statusVars>>
    \/ \E u \in Users : RecordUser(u, <<"h", "e", "l", "l", "o">>) /\ UNCHANGED <<redactorVars, parserVars, conversationVars, botVars, statusVars>>
    \/ \E u \in Users : RecordAssistant(u, <<"h", "e", "l", "l", "o">>) /\ UNCHANGED <<redactorVars, parserVars, conversationVars, botVars, statusVars>>

SpecStore == AInit /\ [][SNext]_vars

-----------------------------------------------------------------------------
(* Claims about the store and the Conversation *)

\* The transcript of u: the messages of u's Conversation, none when u has no Conversation.
Transcript(u) == IF conversations[u] = Absent THEN <<>> ELSE conversations[u].messages

\* C15: after clear_conversation(u), whether u had a session id, a transcript,
\* both or neither, u has no stored session id and an empty transcript, and
\* the next turn of u passes no continuation id.
C15_ClearRemovesBoth ==
    [][\A u \in Users :
         /\ IsClear(u) => (~HasSession(u)' /\ Transcript(u)' = <<>>)
         /\ (turn.user = 0 /\ turn.cleared = u /\ turn'.user = u) => turn'.continued = None]_vars

\* clear_conversation has just cleared a user that had both a session id and a transcript.
C15_ClearedBothWitness ==
    /\ turn.user = 0 /\ turn.cleared # 0
    /\ turn.session /\ turn.messages > 0
    /\ ~HasSession(turn.cleared) /\ Transcript(turn.cleared) = <<>>

\* The messages were added in turns, a user message first.
Alternating(seq) ==
    \A i \in 1..Len(seq) : seq[i].role = (IF i % 2 = 1 THEN "user" ELSE "assistant")

\* The last n messages of seq (all of them when there are fewer).
Recent(seq, n) == SubSeq(seq, (IF Len(seq) > n THEN Len(seq) - n + 1 ELSE 1), Len(seq))

\* C16: after more pairs than the cap K have been inserted (a user message,
\* then an assistant message, for each), the transcript holds exactly the K
\* most recent pairs in their order; and after every add the transcript
\* holds at most 2K messages.
C16_KeepsRecentPairs ==
    /\ Len(conversation.messages) <= 2 * conversation.max_messages
    /\ (/\ Alternating(inserted)
        /\ Len(inserted) % 2 = 0
        /\ Len(inserted) \div 2 > conversation.max_messages)
       => conversation.messages = Recent(inserted, 2 * conversation.max_messages)

\* Three pairs were inserted into a Conversation with cap 2, which holds the last two.
C16_ThreePairsWitness ==
    /\ conversation.max_messages = 2
    /\ Alternating(inserted) /\ Len(inserted) = 6
    /\ inserted[1].content # inserted[3].content
    /\ conversation.messages = SubSeq(inserted, 3, 6)

\* C17: in every state of a transcript built by alternating add_user_message
\* and add_assistant_message, the retained messages are whole user/assistant
\* pairs plus at most the user message in flight, so that the first retained
\* message has role user.
C17_WholePairsRetained ==
    Alternating(inserted) => Alternating(conversation.messages)

\* C18: process_message(u, ...) and clear_conversation(u) leave the stored
\* session id and the transcript of every other user unchanged.
C18_OtherUsersUnchanged ==
    [][\A u \in Users :
         (turn'.user = u \/ IsClear(u)) =>
             \A v \in Users \ {u} :
                 /\ session_ids'[v] = session_ids[v]
                 /\ conversations'[v] = conversations[v]]_vars

\* A turn of a user has stored a session id while another user has a
\* session id and a transcript.
C18_OtherUserWitness ==
    /\ turn.user # 0 /\ turn.continued = None /\ HasSession(turn.user)
    /\ \E v \in Users \ {turn.user} : HasSession(v) /\ Transcript(v) # <<>>

-----------------------------------------------------------------------------
(* Bot specification: the updates of MaxUsers users and of a stranger, at   *)
(* most MaxUpdates of them waiting. The handlers modelled are handle_message *)
(* and clear_command; no user is in Ollama mode. A turn begins when          *)
(* handle_message calls the agent and ends when the external process ends.   *)

MaxUpdates == 2

\* A sender that is not in allowed_user_ids.
Stranger == 0

allowed_user_ids == Users

\* A variant that lets every sender in.
is_authorized_anyone(user_id) == user_id \in allowed_user_ids \cup {Stranger}

is_authorized(user_id) == user_id \in allowed_user_ids

Update(user_id, kind) == [user |-> user_id, kind |-> kind]

BInit == /\ updates = <<>>
         /\ inflight = <<>>
         /\ OInitIdle
         /\ session_ids = [u \in Users |-> Absent]
         /\ conversations = [u \in Users |-> Absent]
         /\ verbose = TRUE
         /\ turn = NoTurn
         /\ delivered = <<>>
         /\ returned = [u \in Users |-> [nonnull |-> None, nonempty |-> None]]
         /\ RInitIdle
         /\ PInitIdle
         /\ CInitIdle
         /\ TInitIdle

\* Telegram delivers an update.
Receive(user_id, kind) ==
    /\ Len(updates) < MaxUpdates
    /\ updates' = Append(updates, Update(user_id, kind))
    /\ UNCHANGED <<inflight, agentVars>>

\* A variant of Dispatching for an Application built with concurrent_updates(True).
DispatchingConcurrently == updates # <<>>

\* The Application (built without concurrent_updates, its handlers blocking)
\* takes the next update when the handler of the last one has returned.
Dispatching == updates # <<>> /\ inflight = <<>>

\* handle_message up to the call of the agent, which reads the stored session id.
BeginTurn ==
    /\ Dispatching
    /\ Head(updates).kind = "message"
    /\ updates' = Tail(updates)
    /\ inflight' = IF is_authorized(Head(updates).user)
                   THEN Append(inflight, [user |-> Head(updates).user,
                                          session_id |-> StoredSession(Head(updates).user)])
                   ELSE inflight
    /\ UNCHANGED agentVars

Without(seq, i) == SubSeq(seq, 1, i - 1) \o SubSeq(seq, i + 1, Len(seq))

\* The external process of the i-th turn in flight ends as o: the agent
\* stores the session id and handle_message sends the responses.
EndTurn(i, o) ==
    /\ i \in 1..Len(inflight)
    /\ Deliver(inflight[i].user, inflight[i].session_id, o, run_claude_code(inflight[i].session_id, o))
    /\ inflight' = Without(inflight, i)
    /\ UNCHANGED updates

\* clear_command
ClearCommand ==
    /\ Dispatching
    /\ Head(updates).kind = "clear"
    /\ updates' = Tail(updates)
    /\ IF is_authorized(Head(updates).user)
       THEN ClearConversation(Head(updates).user)
       ELSE UNCHANGED agentVars
    /\ UNCHANGED inflight

BNext ==
    \/ \E user_id \in Users \cup {Stranger}, kind \in {"message", "clear"} :
         Receive(user_id, kind) /\ UNCHANGED <<redactorVars, parserVars, conversationVars, ollamaVars, statusVars>>
    \/ BeginTurn /\ UNCHANGED <<redactorVars, parserVars, conversationVars, ollamaVars, statusVars>>
    \/ \E i \in 1..MaxUpdates, o \in StoreOutcomes :
         EndTurn(i, o) /\ UNCHANGED <<redactorVars, parserVars, conversationVars, ollamaVars, statusVars>>
    \/ ClearCommand /\ UNCHANGED <<redactorVars, parserVars, conversationVars, ollamaVars, statusVars>>

SpecBot == BInit /\ [][BNext]_vars

\* A turn of u is in flight.
InFlight(u) == \E i \in 1..Len(inflight) : inflight[i].user = u

\* C19: at no time are two external process invocations in flight for the
\* same user, and between the read of the stored session id at the start of
\* a turn and the write at its end no other turn and no clear of the same
\* user takes place.
C19_TurnsSerialized ==
    /\ [](\A i, j \in 1..Len(inflight) : i # j => inflight[i].user # inflight[j].user)
    /\ [](\A i \in 1..Len(inflight) : inflight[i].session_id = StoredSession(inflight[i].user))
    /\ [][\A u \in Users : (InFlight(u) /\ InFlight(u)') =>
              (session_ids'[u] = session_ids[u] /\ conversations'[u] = conversations[u] /\ turn' = turn)]_vars

\* A turn of a user is in flight while a message and a clear of the same user wait.
C19_WaitingWitness ==
    /\ Len(inflight) = 1 /\ Len(updates) = 2
    /\ inflight[1].session_id # None
    /\ updates[1] = Update(inflight[1].user, "message")
    /\ updates[2] = Update(inflight[1].user, "clear")


-----------------------------------------------------------------------------
(* Authorization specification: every handler of the bot, run to its end    *)
(* for an update of one of MaxUsers users or of a stranger; the bot has an  *)
(* Ollama agent or none, and the Ollama conversations take at most MaxChats *)
(* exchanges in all.                                                         *)

MaxChats == 1

Senders == Users \cup {Stranger}

OllamaModels == {<<"l", "l", "a", "m", "a", "3", ".", "2">>, <<"m", "i", "s", "t", "r", "a", "l">>}

\* OllamaAgent(model=model)
OllamaAgent(model) == [model |-> model, conversations |-> [u \in Senders |-> Absent]]

\* The number of messages of the user's Ollama conversation.
OllamaMessages(user_id) ==
    IF ollama_agent.conversations[user_id] = Absent THEN 0 ELSE ollama_agent.conversations[user_id].v

\* OllamaAgent.process_message(user_id, message): the message and the answer
\* are appended and the last 20 messages kept.
ollama_process_message(user_id) ==
    [ollama_agent EXCEPT !.conversations[user_id] =
        PyInt(IF OllamaMessages(user_id) + 2 > 20 THEN 20 ELSE OllamaMessages(user_id) + 2)]

\* OllamaAgent.clear_conversation(user_id)
ollama_clear_conversation(user_id) == [ollama_agent EXCEPT !.conversations[user_id] = Absent]

\* OllamaAgent.set_model(model)
set_model(model) == [ollama_agent EXCEPT !.model = model]

XInit == /\ updates = <<>>
         /\ inflight = <<>>
         /\ ollama_mode_users = {}
         /\ ollama_agent \in {None, OllamaAgent(<<"l", "l", "a", "m", "a", "3", ".", "2">>)}
         /\ handled = NoUpdate
         /\ session_ids = [u \in Senders |-> Absent]
         /\ conversations = [u \in Senders |-> Absent]
         /\ verbose = TRUE
         /\ turn = NoTurn
         /\ delivered = <<>>
         /\ returned = [u \in Senders |-> [nonnull |-> None, nonempty |-> None]]
         /\ RInitIdle
         /\ PInitIdle
         /\ CInitIdle
         /\ TInitIdle

\* The handler has returned.
Handled(user_id, handler, claude, ollama) ==
    handled' = [user |-> user_id, handler |-> handler, claude |-> claude, ollama |-> ollama]

\* The handler makes no call that reads or writes the state of the Claude agent.
AgentLeftAlone ==
    /\ turn' = NoTurn
    /\ UNCHANGED <<session_ids, conversations, verbose, delivered, returned>>

\* The handler returns without a call of an agent.
ReturnsAt(user_id, handler) ==
    /\ Handled(user_id, handler, FALSE, FALSE)
    /\ AgentLeftAlone
    /\ UNCHANGED <<ollama_mode_users, ollama_agent>>

RECURSIVE Exchanges(_)
Exchanges(users) ==
    IF users = {} THEN 0
    ELSE LET u == CHOOSE v \in users : TRUE
         IN OllamaMessages(u) \div 2 + Exchanges(users \ {u})

\* The Ollama conversations can take another exchange.
ChatBounded == Exchanges(Senders) < MaxChats

\* Agent.process_message_streaming(user_id, message_text, on_event), the external process ending as o.
process_message_streaming(user_id, o) == ProcessMessage(user_id, o)

start_command(user_id) == ReturnsAt(user_id, "start")

clear_command(user_id) ==
    IF ~is_authorized(user_id) THEN ReturnsAt(user_id, "clear")
    ELSE /\ ClearConversation(user_id)
         /\ Handled(user_id, "clear", TRUE, FALSE)
         /\ UNCHANGED <<ollama_mode_users, ollama_agent>>

\* `claude --version` is run and, if there is an Ollama agent, its models are listed.
status_command(user_id) ==
    IF ~is_authorized(user_id) THEN ReturnsAt(user_id, "status")
    ELSE /\ Handled(user_id, "status", TRUE, ollama_agent # None)
         /\ AgentLeftAlone
         /\ UNCHANGED <<ollama_mode_users, ollama_agent>>

ollama_command(user_id, has_text) ==
    IF ~is_authorized(user_id) \/ ollama_agent = None \/ ~has_text THEN ReturnsAt(user_id, "ollama")
    ELSE /\ ChatBounded
         /\ ollama_agent' = ollama_process_message(user_id)
         /\ Handled(user_id, "ollama", FALSE, TRUE)
         /\ AgentLeftAlone
         /\ UNCHANGED ollama_mode_users

ollama_models_command(user_id) ==
    IF ~is_authorized(user_id) \/ ollama_agent = None THEN ReturnsAt(user_id, "ollama_models")
    ELSE /\ Handled(user_id, "ollama_models", FALSE, TRUE)
         /\ AgentLeftAlone
         /\ UNCHANGED <<ollama_mode_users, ollama_agent>>

ollama_model_command(user_id, model_name) ==
    IF ~is_authorized(user_id) \/ ollama_agent = None \/ model_name = <<>>
    THEN ReturnsAt(user_id, "ollama_model")
    ELSE /\ ollama_agent' = set_model(model_name)
         /\ Handled(user_id, "ollama_model", FALSE, TRUE)
         /\ AgentLeftAlone
         /\ UNCHANGED ollama_mode_users

ollama_clear_command(user_id) ==
    IF ~is_authorized(user_id) \/ ollama_agent = None THEN ReturnsAt(user_id, "ollama_clear")
    ELSE /\ ollama_agent' = ollama_clear_conversation(user_id)
         /\ Handled(user_id, "ollama_clear", FALSE, TRUE)
         /\ AgentLeftAlone
         /\ UNCHANGED ollama_mode_users

ollama_mode_command(user_id) ==
    IF ~is_authorized(user_id) \/ ollama_agent = None THEN ReturnsAt(user_id, "ollama_mode")
    ELSE /\ ollama_mode_users' = IF user_id \in ollama_mode_users
                                 THEN ollama_mode_users \ {user_id}
                                 ELSE ollama_mode_users \cup {user_id}
         /\ Handled(user_id, "ollama_mode", FALSE, FALSE)
         /\ AgentLeftAlone
         /\ UNCHANGED ollama_agent

handle_message(user_id, o) ==
    IF ~is_authorized(user_id) THEN ReturnsAt(user_id, "message")
    ELSE IF user_id \in ollama_mode_users /\ ollama_agent # None
    THEN /\ ChatBounded
         /\ ollama_agent' = ollama_process_message(user_id)
         /\ Handled(user_id, "message", FALSE, TRUE)
         /\ AgentLeftAlone
         /\ UNCHANGED ollama_mode_users
    ELSE /\ process_message_streaming(user_id, o)
         /\ Handled(user_id, "message", TRUE, FALSE)
         /\ UNCHANGED <<ollama_mode_users, ollama_agent>>

XNext ==
    \/ \E user_id \in Senders :
         start_command(user_id) /\ UNCHANGED <<redactorVars, parserVars, conversationVars, updates, inflight, statusVars>>
    \/ \E user_id \in Senders :
         clear_command(user_id) /\ UNCHANGED <<redactorVars, parserVars, conversationVars, updates, inflight, statusVars>>
    \/ \E user_id \in Senders :
         status_command(user_id) /\ UNCHANGED <<redactorVars, parserVars, conversationVars, updates, inflight, statusVars>>
    \/ \E user_id \in Senders, has_text \in BOOLEAN :
         ollama_command(user_id, has_text) /\ UNCHANGED <<redactorVars, parserVars, conversationVars, updates, inflight, statusVars>>
    \/ \E user_id \in Senders :
         ollama_models_command(user_id) /\ UNCHANGED <<redactorVars, parserVars, conversationVars, updates, inflight, statusVars>>
    \/ \E user_id \in Senders, model_name \in OllamaModels \cup {<<>>} :
         ollama_model_command(user_id, model_name) /\ UNCHANGED <<redactorVars, parserVars, conversationVars, updates, inflight, statusVars>>
    \/ \E user_id \in Senders :
         ollama_clear_command(user_id) /\ UNCHANGED <<redactorVars, parserVars, conversationVars, updates, inflight, statusVars>>
    \/ \E user_id \in Senders :
         ollama_mode_command(user_id) /\ UNCHANGED <<redactorVars, parserVars, conversationVars, updates, inflight, statusVars>>
    \/ \E user_id \in Senders, o \in StoreOutcomes :
         handle_message(user_id, o) /\ UNCHANGED <<redactorVars, parserVars, conversationVars, updates, inflight, statusVars>>

SpecAuth == XInit /\ [][XNext]_vars
-----------------------------------------------------------------------------
(* The status message of a turn: on_event and update_status_message, the    *)
(* closures of handle_message over the state of the turn.                    *)

MIN_EDIT_INTERVAL == 2

IconHourglass == <<"U+23F3">>
IconArrows == <<"U+1F504">>
IconCheck == <<"U+2713">>
IconHand == <<"U+270D", "U+FE0F">>
IconChart == <<"U+1F4CA">>

\* The state of a turn when handle_message has created the status message.
InitialState ==
    [current_tool |-> None, tool_count |-> 0, tools_list |-> <<>>, thinking |-> FALSE,
     has_text |-> FALSE, last_edit |-> 0, pending_update |-> FALSE]

\* A variant that shows tools_list[:5], the oldest entries.
ActionLinesOldest(tools_list) ==
    LET recent_tools == SubSeq(tools_list, 1, IF Len(tools_list) < 5 THEN Len(tools_list) ELSE 5)
    IN <<IconGear \o <<" ", "*", "*", "A", "c", "t", "i", "o", "n", "s", ":", "*", "*">>>>
       \o [i \in 1..Len(recent_tools) |-> <<" ", " ">> \o IconCheck \o <<" ">> \o Str(recent_tools[i])]
       \o (IF Len(tools_list) > 5
           THEN <<<<" ", " ", "_", ".", ".", ".", "a", "n", "d", " ">> \o IntStr(Len(tools_list) - 5) \o <<" ", "m", "o", "r", "e", "_">>>>
           ELSE <<>>)
       \o <<<<>>>>

\* tools_list[-5:], one line each, and the line that counts the others
ActionLines(tools_list) ==
    LET recent_tools == SliceFrom(tools_list, 0 - 5)
    IN <<IconGear \o <<" ", "*", "*", "A", "c", "t", "i", "o", "n", "s", ":", "*", "*">>>>
       \o [i \in 1..Len(recent_tools) |-> <<" ", " ">> \o IconCheck \o <<" ">> \o Str(recent_tools[i])]
       \o (IF Len(tools_list) > 5
           THEN <<<<" ", " ", "_", ".", ".", ".", "a", "n", "d", " ">> \o IntStr(Len(tools_list) - 5) \o <<" ", "m", "o", "r", "e", "_">>>>
           ELSE <<>>)
       \o <<<<>>>>

status_parts(st) ==
    (IF st.tool_count > 0 THEN <<IntStr(st.tool_count) \o <<" ", "t", "o", "o", "l", "s">>>> ELSE <<>>)
    \o (IF st.thinking THEN <<IconBrain \o <<" ", "t", "h", "i", "n", "k", "i", "n", "g">>>> ELSE <<>>)
    \o (IF st.has_text THEN <<IconHand \o <<" ", "w", "r", "i", "t", "i", "n", "g">>>> ELSE <<>>)

\* The lines of the status message.
StatusLines(st) ==
    <<IconHourglass \o <<" ", "*", "*", "C", "l", "a", "u", "d", "e", " ", "i", "s", " ", "w", "o", "r", "k", "i", "n", "g", ".", ".", ".", "*", "*">>, <<>>>>
    \o (IF Truthy(st.current_tool)
        THEN <<IconArrows \o <<" ", "*", "*", "C", "u", "r", "r", "e", "n", "t", ":", "*", "*", " ">> \o Str(st.current_tool), <<>>>>
        ELSE <<>>)
    \o (IF st.tools_list # <<>> THEN ActionLines(st.tools_list) ELSE <<>>)
    \o (IF status_parts(st) # <<>>
        THEN <<IconChart \o <<" ">> \o Join(<<" ", "|", " ">>, status_parts(st))>>
        ELSE <<>>)

\* new_text
StatusText(st) == Join(<<NL>>, StatusLines(st))

\* The outcome of a step of the turn: the state and the edit_text calls made,
\* each with the state whose StatusText it sends.
Step(st, emitted) == [state |-> st, emitted |-> emitted]

\* A variant that does not note a suppressed request.
update_status_message_unnoted(st, time, edited) ==
    IF time - st.last_edit < MIN_EDIT_INTERVAL
    THEN Step(st, <<>>)
    ELSE Step(IF edited THEN [st EXCEPT !.last_edit = time, !.pending_update = FALSE] ELSE st,
              <<[shown |-> st, at |-> time, ok |-> edited]>>)

\* A variant whose interval is one second shorter.
update_status_message_early(st, time, edited) ==
    IF time - st.last_edit < MIN_EDIT_INTERVAL - 1
    THEN Step([st EXCEPT !.pending_update = TRUE], <<>>)
    ELSE Step(IF edited THEN [st EXCEPT !.last_edit = time, !.pending_update = FALSE] ELSE st,
              <<[shown |-> st, at |-> time, ok |-> edited]>>)

\* update_status_message() at the given time; edited tells whether edit_text returns or raises.
update_status_message(st, time, edited) ==
    IF time - st.last_edit < MIN_EDIT_INTERVAL
    THEN Step([st EXCEPT !.pending_update = TRUE], <<>>)
    ELSE Step(IF edited THEN [st EXCEPT !.last_edit = time, !.pending_update = FALSE] ELSE st,
              <<[shown |-> st, at |-> time, ok |-> edited]>>)

EventType(event) == Get(event, <<"t", "y", "p", "e">>, PyStr(<<>>))

\* on_event(event) at the given time
on_event(st, event, time, edited) ==
    IF EqStr(EventType(event), <<"t", "o", "o", "l", "_", "u", "s", "e">>)
    THEN update_status_message(
             [st EXCEPT !.current_tool = Get(event, <<"f", "o", "r", "m", "a", "t", "t", "e", "d">>, PyStr(<<"U", "n", "k", "n", "o", "w", "n", " ", "t", "o", "o", "l">>)),
                        !.tool_count = @ + 1,
                        !.tools_list = Append(@, Get(event, <<"f", "o", "r", "m", "a", "t", "t", "e", "d">>, PyStr(<<"U", "n", "k", "n", "o", "w", "n">>)))],
             time, edited)
    ELSE IF EqStr(EventType(event), <<"t", "o", "o", "l", "_", "r", "e", "s", "u", "l", "t">>)
    THEN update_status_message([st EXCEPT !.current_tool = None], time, edited)
    ELSE IF EqStr(EventType(event), <<"t", "h", "i", "n", "k", "i", "n", "g">>)
    THEN update_status_message([st EXCEPT !.thinking = TRUE], time, edited)
    ELSE IF EqStr(EventType(event), <<"t", "e", "x", "t">>)
    \* has_text is set before it is tested: no update
    THEN Step([st EXCEPT !.has_text = TRUE, !.current_tool = None], <<>>)
    ELSE IF EqStr(EventType(event), <<"c", "o", "m", "p", "l", "e", "t", "e">>)
    THEN (IF st.pending_update
          THEN update_status_message([st EXCEPT !.last_edit = 0], time, edited)
          ELSE Step(st, <<>>))
    ELSE Step(st, <<>>)

-----------------------------------------------------------------------------
(* Status specification: one turn, at most MaxEvents events handed to       *)
(* on_event, the last of them the complete event if there is one, while up  *)
(* to MaxTicks seconds pass.                                                 *)

MaxEvents == 4
MaxTicks == 2

\* time.time() when the turn begins
StartTime == 5 * MIN_EDIT_INTERVAL

EventOf(type) == PyDict(<<[k |-> <<"t", "y", "p", "e">>, v |-> PyStr(type)]>>)

ToolUseEvent(tool_name, formatted) ==
    PyDict(<<[k |-> <<"t", "y", "p", "e">>, v |-> PyStr(<<"t", "o", "o", "l", "_", "u", "s", "e">>)],
             [k |-> <<"t", "o", "o", "l", "_", "n", "a", "m", "e">>, v |-> PyStr(tool_name)],
             [k |-> <<"f", "o", "r", "m", "a", "t", "t", "e", "d">>, v |-> PyStr(formatted)]>>)

StatusEvents ==
    {ToolUseEvent(<<"B", "a", "s", "h">>, IconComputer \o <<" ", "l", "s">>),
     EventOf(<<"t", "o", "o", "l", "_", "u", "s", "e">>),
     EventOf(<<"t", "o", "o", "l", "_", "r", "e", "s", "u", "l", "t">>),
     EventOf(<<"t", "h", "i", "n", "k", "i", "n", "g">>),
     EventOf(<<"t", "e", "x", "t">>),
     EventOf(<<"c", "o", "m", "p", "l", "e", "t", "e">>)}

TInit == /\ state = InitialState
         /\ now = StartTime
         /\ emissions = <<>>
         /\ events = <<>>
         /\ RInitIdle
         /\ PInitIdle
         /\ AInitIdle
         /\ CInitIdle
         /\ BInitIdle

IsComplete(event) == EqStr(EventType(event), <<"c", "o", "m", "p", "l", "e", "t", "e">>)

\* The complete event has been handed over.
TurnComplete == events # <<>> /\ IsComplete(events[Len(events)].event)

Emit(event, step) ==
    /\ state' = step.state
    /\ emissions' = emissions \o [i \in 1..Len(step.emitted) |->
                                     [shown |-> step.emitted[i].shown, at |-> step.emitted[i].at,
                                      ok |-> step.emitted[i].ok, forced |-> IsComplete(event)]]
    /\ events' = Append(events, [event |-> event, at |-> now,
                                 calls |-> [i \in 1..Len(step.emitted) |-> step.emitted[i].ok]])
    /\ UNCHANGED now

OnEvent(event, edited) ==
    /\ Len(events) < MaxEvents
    /\ ~TurnComplete
    /\ Emit(event, on_event(state, event, now, edited))

Tick ==
    /\ now < StartTime + MaxTicks
    /\ now' = now + 1
    /\ UNCHANGED <<state, emissions, events>>

TNext ==
    \/ \E event \in StatusEvents, edited \in BOOLEAN :
         OnEvent(event, edited) /\ UNCHANGED <<redactorVars, parserVars, agentVars, conversationVars, botVars>>
    \/ Tick /\ UNCHANGED <<redactorVars, parserVars, agentVars, conversationVars, botVars>>

SpecStatus == TInit /\ [][TNext]_vars

\* The edit_text calls that returned.
Edits == SelectSeq(emissions, LAMBDA e : e.ok)

IsProgress(event) ==
    \/ EqStr(EventType(event), <<"t", "o", "o", "l", "_", "u", "s", "e">>)
    \/ EqStr(EventType(event), <<"t", "h", "i", "n", "k", "i", "n", "g">>)
    \/ EqStr(EventType(event), <<"t", "e", "x", "t">>)

\* The events so far are tool-use, thinking and text events, at least one,
\* followed by the complete event, all within less than MIN_EDIT_INTERVAL.
QuickTurn ==
    /\ Len(events) >= 2
    /\ TurnComplete
    /\ \A i \in 1..(Len(events) - 1) : IsProgress(events[i].event)
    /\ events[Len(events)].at - events[1].at < MIN_EDIT_INTERVAL

ToolUses == Len(SelectSeq(events, LAMBDA e : EqStr(EventType(e.event), <<"t", "o", "o", "l", "_", "u", "s", "e">>)))

ThinkingSeen == \E i \in 1..Len(events) : EqStr(EventType(events[i].event), <<"t", "h", "i", "n", "k", "i", "n", "g">>)

\* C20: when tool-use, thinking and text events that all come within less
\* than MIN_EDIT_INTERVAL of each other are followed by a complete event,
\* exactly one edit of the status message happens in the whole turn, the one
\* forced by the complete event, and it shows the full tool count and the
\* thinking indicator.
C20_OneForcedEmission ==
    QuickTurn =>
        /\ Len(Edits) = 1
        /\ Edits[1].forced
        /\ ToolUses > 0 => Contains(IntStr(ToolUses) \o <<" ", "t", "o", "o", "l", "s">>, StatusText(Edits[1].shown))
        /\ ThinkingSeen => Contains(IconBrain \o <<" ", "t", "h", "i", "n", "k", "i", "n", "g">>, StatusText(Edits[1].shown))


-----------------------------------------------------------------------------
(* Tool log specification: one turn of up to MaxTools tool-use events,      *)
(* closed or not by the complete event, while up to MaxTicks seconds pass;  *)
(* only the edit made for the complete event can fail.                      *)

MaxTools == 6

ToolEvents ==
    {ToolUseEvent(<<"B", "a", "s", "h">>, IconComputer \o <<" ", "l", "s">>),
     EventOf(<<"t", "o", "o", "l", "_", "u", "s", "e">>)}

OnToolUse(event, edited) ==
    /\ Len(events) < MaxTools
    /\ ~TurnComplete
    /\ Emit(event, on_event(state, event, now, edited))

OnComplete(edited) ==
    /\ ~TurnComplete
    /\ Emit(EventOf(<<"c", "o", "m", "p", "l", "e", "t", "e">>), on_event(state, EventOf(<<"c", "o", "m", "p", "l", "e", "t", "e">>), now, edited))

LNext ==
    \/ \E event \in ToolEvents :
         OnToolUse(event, TRUE) /\ UNCHANGED <<redactorVars, parserVars, agentVars, conversationVars, botVars>>
    \/ \E edited \in BOOLEAN :
         OnComplete(edited) /\ UNCHANGED <<redactorVars, parserVars, agentVars, conversationVars, botVars>>
    \/ Tick /\ UNCHANGED <<redactorVars, parserVars, agentVars, conversationVars, botVars>>

SpecToolLog == TInit /\ [][LNext]_vars

\* The edit_text calls made for the complete event.
Forced == SelectSeq(emissions, LAMBDA e : e.forced)

\* C21: every complete event forces exactly one emission, whatever the
\* throttle state and whether or not a render was suppressed earlier in the
\* turn, and that emission renders the state as it is at complete time.
C21_CompleteForcesEmission ==
    TurnComplete =>
        /\ Len(Forced) = 1
        /\ StatusText(Forced[1].shown) = StatusText(state)

\* The edits made before the complete event.
Unforced == SelectSeq(Edits, LAMBDA e : ~e.forced)

IsText(event) == EqStr(EventType(event), <<"t", "e", "x", "t">>)

\* The last event handed over is the first text event of the turn.
FirstTextHandled ==
    /\ events # <<>>
    /\ IsText(events[Len(events)].event)
    /\ \A i \in 1..(Len(events) - 1) : ~IsText(events[i].event)

\* C23: the first text event of a turn sets has_text, clears current_tool
\* and proposes a render: after it, either edit_text has been called with a
\* text that shows the writing indicator or pending_update is set.
C23_FirstTextProposesRender ==
    FirstTextHandled =>
        /\ state.has_text
        /\ state.current_tool = None
        /\ \/ \E i \in 1..Len(emissions) :
                  Contains(IconHand \o <<" ", "w", "r", "i", "t", "i", "n", "g">>, StatusText(emissions[i].shown))
           \/ state.pending_update

\* The events for which on_event calls update_status_message whatever the state.
IsRenderRequest(event) ==
    \/ EqStr(EventType(event), <<"t", "o", "o", "l", "_", "u", "s", "e">>)
    \/ EqStr(EventType(event), <<"t", "o", "o", "l", "_", "r", "e", "s", "u", "l", "t">>)
    \/ EqStr(EventType(event), <<"t", "h", "i", "n", "k", "i", "n", "g">>)

\* The i-th event requested a render and no edit_text call was made for it.
Suppressed(i) == IsRenderRequest(events[i].event) /\ events[i].calls = <<>>

\* The i-th event led to an edit_text call that returned.
Edited(i) == \E k \in 1..Len(events[i].calls) : events[i].calls[k]

\* The index of the last event that led to an edit, 0 if there is none.
LastEdited ==
    LET edited == {i \in 1..Len(events) : Edited(i)}
    IN IF edited = {} THEN 0 ELSE CHOOSE i \in edited : \A j \in edited : j <= i

HasPrefix(prefix, line) == Len(line) >= Len(prefix) /\ SubSeq(line, 1, Len(prefix)) = prefix

EntryPrefix == <<" ", " ">> \o IconCheck \o <<" ">>

MorePrefix == <<" ", " ", "_", ".", ".", ".", "a", "n", "d", " ">>

\* The formatted texts of the tool-use events handed over so far, in order.
ToolLog ==
    LET uses == SelectSeq(events, LAMBDA e : EqStr(EventType(e.event), <<"t", "o", "o", "l", "_", "u", "s", "e">>))
    IN [i \in 1..Len(uses) |-> Str(Get(uses[i].event, <<"f", "o", "r", "m", "a", "t", "t", "e", "d">>, PyStr(<<"U", "n", "k", "n", "o", "w", "n">>)))]

\* The last entries of the log, at most 5 of them, in log order.
LastFive(log) ==
    LET n == IF Len(log) < 5 THEN Len(log) ELSE 5
    IN [i \in 1..n |-> log[Len(log) - n + i]]

\* The lines show the given entries and nothing else of a log of the given length.
RendersLog(lines, recent, count) ==
    /\ SelectSeq(lines, LAMBDA line : HasPrefix(EntryPrefix, line))
           = [i \in 1..Len(recent) |-> EntryPrefix \o recent[i]]
    /\ SelectSeq(lines, LAMBDA line : HasPrefix(MorePrefix, line))
           = IF count > 5 THEN <<MorePrefix \o IntStr(count - 5) \o <<" ", "m", "o", "r", "e", "_">>>> ELSE <<>>
    /\ count > 0 => HasPrefix(IconChart \o <<" ">> \o IntStr(count) \o <<" ", "t", "o", "o", "l", "s">>, lines[Len(lines)])

\* An edit_text call has just been made.
JustEmitted == events # <<>> /\ events[Len(events)].calls # <<>>

\* C25: every emission renders at most the last 5 entries of the tool log, in
\* log order, and a line counting N more exactly when the tool count exceeds
\* 5, with N the tool count minus 5; the tool count of the status line is the
\* number of tool-use events received so far in the turn.
C25_RendersLastFive ==
    JustEmitted =>
        RendersLog(StatusLines(emissions[Len(emissions)].shown), LastFive(ToolLog), Len(ToolLog))

\* An emission shows a log of more than 5 entries.
C25_MoreWitness ==
    JustEmitted /\ Len(ToolLog) > 5 /\ emissions[Len(emissions)].ok

\* The raw output holds a reasoning text of exactly n characters.
HasReasoning(n) == Contains(<<"\"">> \o Reasoning(n) \o <<"\"">>, pOutput)

\* What a reasoning text of n characters leaves in the thinking list.
Excerpt(n) ==
    IF n > THINKING_MAX THEN PyStr(Reasoning(THINKING_MAX - 3) \o <<".", ".", ".">>) ELSE PyStr(Reasoning(n))

\* C26: every entry of the thinking list returned by parse_json_output, on
\* every extraction path, comes from a reasoning text of at least
\* THINKING_MIN characters and is at most THINKING_MAX characters long,
\* ending with the ellipsis when the text was longer; shorter texts are
\* discarded and a text of exactly THINKING_MIN characters is kept.
C26_ThinkingLimits ==
    Returned =>
        /\ \A i \in 1..Len(pResult.thinking) :
               \E n \in ReasoningLengths :
                   n >= THINKING_MIN /\ HasReasoning(n) /\ pResult.thinking[i] = Excerpt(n)
        /\ \A n \in ReasoningLengths :
               (n >= THINKING_MIN /\ HasReasoning(n)) =>
                   \E i \in 1..Len(pResult.thinking) : pResult.thinking[i] = Excerpt(n)

\* A line of the line-by-line pass that does not decode.
IsLiteral(line) == ~json_loads(line).ok

\* The text that the lines that decode add to the final text, in line order.
DecodedText(lines) ==
    Flatten([i \in 1..Len(lines) |->
                IF IsLiteral(lines[i]) THEN <<>> ELSE Lines(<<lines[i]>>, 1, Start).final.v])

FirstLiteral(lines) ==
    CHOOSE i \in 1..Len(lines) : IsLiteral(lines[i]) /\ \A j \in 1..(i - 1) : ~IsLiteral(lines[j])

\* C27: in the line-by-line pass a line that does not decode becomes the
\* final text only if no final text has been accumulated yet; the first such
\* line wins and the final text is never a concatenation involving a literal
\* line, whatever lines follow it.
C27_LiteralLineAlone ==
    (Returned /\ ~Decoded.ok /\ \E i \in 1..Len(NonBlankLines(pOutput)) : IsLiteral(NonBlankLines(pOutput)[i])) =>
        LET lines == NonBlankLines(pOutput)
            first == FirstLiteral(lines)
        IN pResult.final = PyStr(IF DecodedText(SubSeq(lines, 1, first - 1)) = <<>>
                                 THEN lines[first]
                                 ELSE DecodedText(lines))

\* The text of a string field of the document, empty if the field is absent, null or no string.
FieldText(data, key) ==
    IF IsStr(Get(data, key, None)) THEN Get(data, key, None).v ELSE <<>>

\* The texts of the text-typed blocks of a list, concatenated in list order.
TextBlocks(blocks) ==
    Flatten([i \in 1..Len(blocks) |->
                IF IsDict(blocks[i]) /\ EqStr(Get(blocks[i], <<"t", "y", "p", "e">>, None), <<"t", "e", "x", "t">>)
                THEN FieldText(blocks[i], <<"t", "e", "x", "t">>)
                ELSE <<>>])

\* The text that the `content` field yields: a string, or the text blocks of a list.
ContentText(data) ==
    IF IsList(Get(data, <<"c", "o", "n", "t", "e", "n", "t">>, None))
    THEN TextBlocks(Get(data, <<"c", "o", "n", "t", "e", "n", "t">>, None).v)
    ELSE FieldText(data, <<"c", "o", "n", "t", "e", "n", "t">>)

\* The texts of `result`, `response` and `content`, in priority order.
FinalTexts(data) == <<FieldText(data, <<"r", "e", "s", "u", "l", "t">>), FieldText(data, <<"r", "e", "s", "p", "o", "n", "s", "e">>), ContentText(data)>>

\* C28: for a single JSON object the final text comes from the first of
\* `result`, `response`, `content` that yields text: a `result` that is null
\* or empty does not stop `response` or `content`, and a `content` list
\* yields the concatenation of its text blocks in list order.
C28_FirstFieldWithText ==
    (Returned /\ Decoded.ok /\ IsDict(Decoded.val)) =>
        \A k \in 1..3 :
            (FinalTexts(Decoded.val)[k] # <<>> /\ \A j \in 1..(k - 1) : FinalTexts(Decoded.val)[j] = <<>>) =>
                pResult.final = PyStr(FinalTexts(Decoded.val)[k])

\* The number of tool_use nodes that sit directly in a list of blocks.
ToolNodes(blocks) ==
    IF IsList(blocks)
    THEN Len(SelectSeq(blocks.v, LAMBDA block :
                 IsDict(block) /\ EqStr(Get(block, <<"t", "y", "p", "e">>, None), <<"t", "o", "o", "l", "_", "u", "s", "e">>)))
    ELSE 0

ContentNodes(data) == ToolNodes(Get(data, <<"c", "o", "n", "t", "e", "n", "t">>, None))

RECURSIVE SumUpTo(_, _)
SumUpTo(counts, n) == IF n = 0 THEN 0 ELSE counts[n] + SumUpTo(counts, n - 1)

\* The tool_use nodes in the content lists of the entries of `messages`.
MessageNodes(data) ==
    LET messages == Get(data, <<"m", "e", "s", "s", "a", "g", "e", "s">>, None)
    IN IF IsList(messages)
       THEN SumUpTo([i \in 1..Len(messages.v) |->
                        IF IsDict(messages.v[i])
                        THEN ToolNodes(Get(messages.v[i], <<"c", "o", "n", "t", "e", "n", "t">>, None))
                        ELSE 0], Len(messages.v))
       ELSE 0

\* The number of usage counters of the document that are greater than zero.
UsageEntries(data) ==
    LET counters == Get(Get(data, <<"u", "s", "a", "g", "e">>, EmptyDict), <<"s", "e", "r", "v", "e", "r", "_", "t", "o", "o", "l", "_", "u", "s", "e">>, EmptyDict)
    IN Cardinality({key \in {<<"w", "e", "b", "_", "s", "e", "a", "r", "c", "h", "_", "r", "e", "q", "u", "e", "s", "t", "s">>, <<"w", "e", "b", "_", "f", "e", "t", "c", "h", "_", "r", "e", "q", "u", "e", "s", "t", "s">>} :
                       NumVal(Get(counters, key, PyInt(0))) > 0})

IsUsageEntry(tool) == Contains(<<" ", "*", "*", "W", "e", "b", " ">>, tool)

\* A document that parse_json_output has decoded as one JSON object and whose
\* tool nodes all sit directly in the top-level content list or in the
\* content list of a message.
ToolsInContentLists ==
    /\ Returned /\ Decoded.ok /\ IsDict(Decoded.val)
    /\ Len(extract_tools_recursive(Decoded.val, Start).tools)
           = ContentNodes(Decoded.val) + MessageNodes(Decoded.val)

\* The usage entries come first in the tool-use list.
UsageEntriesFirst ==
    \A i \in 1..Len(pResult.tools) :
        IsUsageEntry(pResult.tools[i]) <=> i <= UsageEntries(Decoded.val)

\* C29 as stated: every such node is appended exactly twice, so the tool-use
\* list has twice the number of nodes plus the number of nonzero usage
\* counters as its length, the usage entries first.
C29_EveryNodeTwice ==
    ToolsInContentLists =>
        /\ Len(pResult.tools)
               = 2 * (ContentNodes(Decoded.val) + MessageNodes(Decoded.val)) + UsageEntries(Decoded.val)
        /\ UsageEntriesFirst

\* The top-level content list is scanned: the document has neither `result` nor `response`.
ContentScanned == ~HasKey(Decoded.val, <<"r", "e", "s", "u", "l", "t">>) /\ ~HasKey(Decoded.val, <<"r", "e", "s", "p", "o", "n", "s", "e">>)

\* C29, amended: a node in the content list of a message is appended twice;
\* a node in the top-level content list is appended twice when the document
\* has neither a `result` nor a `response` field and once otherwise; the
\* usage entries come first.
C29_ContentNodesTwiceIfScanned ==
    ToolsInContentLists =>
        /\ Len(pResult.tools)
               = (IF ContentScanned THEN 2 ELSE 1) * ContentNodes(Decoded.val)
                 + 2 * MessageNodes(Decoded.val) + UsageEntries(Decoded.val)
        /\ UsageEntriesFirst

\* a node of the top-level content list next to a `result` field: appended once
C29_OnceWitness ==
    /\ ToolsInContentLists
    /\ ~ContentScanned
    /\ ContentNodes(Decoded.val) = 1
    /\ Len(pResult.tools) = 1

\* C30: whatever the updates, an update of a sender that is not in
\* allowed_user_ids never invokes the Claude agent or the Ollama agent, never
\* clears or changes a stored session id or a conversation, and never
\* changes the set of the users in Ollama mode.
C30_UnauthorizedChangesNothing ==
    [][handled'.user \notin allowed_user_ids =>
           /\ ~handled'.claude
           /\ ~handled'.ollama
           /\ session_ids' = session_ids
           /\ conversations' = conversations
           /\ ollama_agent' = ollama_agent
           /\ ollama_mode_users' = ollama_mode_users]_vars

\* The stranger's /clear has been handled while a session id is stored, a
\* user is in Ollama mode and an Ollama conversation exists.
C30_StrangerWitness ==
    /\ handled.user = Stranger /\ handled.handler = "clear"
    /\ \E u \in Users : session_ids[u] # Absent
    /\ ollama_mode_users # {}
    /\ \E u \in Users : ollama_agent.conversations[u] # Absent
=============================================================================
